---- MODULE Spec2Model ----
(***************************************************************************)
(* A model of svcs: the Registry (service map and shutdown hooks) and the  *)
(* Container (instance cache and release stack) of src/svcs/_core.py.      *)
(* One shared registry "app", one private local registry per container.    *)
(***************************************************************************)
EXTENDS Integers, Sequences, FiniteSets, TLC

\* ------------------------------------------------------------------ bounds
\* Factory invocations in one behaviour.
MaxCalls == 3
\* Length of a registry's shutdown-hook list.
MaxHooks == 2
\* Factory invocations in one behaviour of the two-container specification.
MaxLocalCalls == 2

\* ------------------------------------------------------------- the inputs
Types == {"A", "B", "C"}
Containers == {"c1", "c2"}
\* Registry identities: the shared one, and the local one of each container.
App == "app"
Registries == {App} \cup Containers

\* Python's None.
None == "None"

\* The factories that get registered: tests/fake_factories.py and the
\* raising generators of tests/test_integration.py.
Factories ==
    { "int_factory",            \* returns a plain value
      "str_gen_factory",        \* generator: a sync context manager
      "boom_gen_factory",       \* generator whose cleanup raises Exception
      "async_int_factory",      \* coroutine function returning a value
      "async_str_gen_factory",  \* async generator: an async context manager
      "async_boom_gen_factory", \* async generator whose cleanup raises
      "lambda_value"            \* register_value's lambda: value
    }

\* Factories that differ in their parameter lists only; each returns a plain
\* value. tests/test_registry.py, TestTakesContainer.
SigFactories ==
    { "container_name_factory",           \* def factory(svcs_container)
      "container_annotation_factory",     \* def factory(foo: Container)
      "container_str_annotation_factory", \* def factory(foo: "svcs.Container")
      "one_param_factory",                \* def factory(foo)
      "int_annotation_factory",           \* def factory(foo: int)
      "two_param_factory",                \* def factory(foo, bar)
      "container_and_more_factory",       \* def factory(svcs_container, bar)
      "uninspectable_factory"             \* inspect.signature raises
    }

\* on_registry_close callbacks.
Hooks == {"close", "boom_close", "aclose"}

\* What calling the factory returns (before any awaiting or entering).
ResultKind(f) ==
    CASE f = "int_factory"            -> "plain"
      [] f = "lambda_value"           -> "plain"
      [] f = "str_gen_factory"        -> "cm"
      [] f = "boom_gen_factory"       -> "cm"
      [] f = "async_int_factory"      -> "coro"
      [] f = "async_str_gen_factory"  -> "acm"
      [] f = "async_boom_gen_factory" -> "acm"
      [] f = "dual_cm_factory"        -> "both"
      [] f = "lambda_cm_value"        -> "cm"
      [] f = "async_cm_factory"       -> "coro_cm"
      [] f = "async_acm_factory"      -> "coro_acm"
      [] f \in SigFactories           -> "plain"
      [] f = "none_factory"           -> "None"
      [] f = "none_gen_factory"       -> "cm"
      [] f = "async_none_factory"     -> "coro"
      [] f = "dep_factory"            -> "cm"
      [] f = "dep_gen_factory"        -> "cm"
      [] f = "async_dep_factory"      -> "coro_cm"
      [] f = "async_dep_gen_factory"  -> "acm"
      [] f = "enter_boom_gen_factory" -> "cm"
      [] f = "async_enter_boom_gen_factory" -> "acm"

\* Python's None as a service: the one object None, whoever produced it.
NoneObject ==
    [kind |-> "None", f |-> None, t |-> None, id |-> 0, entered |-> ""]

\* The object the n-th invocation of the factory registered for t produces;
\* register_value's lambda returns the one registered value every time.
CallFactory(f, t, n) ==
    IF ResultKind(f) = "None" THEN NoneObject
    ELSE [kind |-> ResultKind(f), f |-> f, t |-> t,
          id |-> IF f \in {"lambda_value", "lambda_cm_value"} THEN 0 ELSE n,
          entered |-> ""]

isinstance_AbstractContextManager(o) == o.kind \in {"cm", "both"}
isinstance_AbstractAsyncContextManager(o) == o.kind \in {"acm", "both"}
\* "coro" is the coroutine of an async def returning a plain value,
\* "coro_cm" / "coro_acm" that of one returning a sync / async context manager.
iscoroutine(o) == o.kind \in {"coro", "coro_cm", "coro_acm"}
isawaitable(o) == o.kind \in {"coro", "coro_cm", "coro_acm"}

\* The context manager after cm.__enter__() / await cm.__aenter__().
cm__enter__(cm) == [cm EXCEPT !.entered = "__enter__"]
cm__aenter__(cm) == [cm EXCEPT !.entered = "__aenter__"]
\* cm.__enter__() / await cm.__aenter__(): the value the generator yields.
Entered(o) ==
    IF o.f = "none_gen_factory" THEN NoneObject
    ELSE [o EXCEPT !.kind = "plain"]
\* await coroutine: the value the coroutine returns.
Awaited(o) ==
    IF o.f = "async_none_factory" THEN NoneObject ELSE
    [o EXCEPT !.kind = CASE o.kind = "coro_cm"  -> "cm"
                         [] o.kind = "coro_acm" -> "acm"
                         [] OTHER               -> "plain"]
\* Whether the code after the generator's yield raises Exception.
ExitRaises(o) == o.f \in {"boom_gen_factory", "async_boom_gen_factory"}

\* Factories that take the container and acquire the service of type "B"
\* from it (svcs_container.get(B), or await svcs_container.aget(B) in the
\* async ones) before they produce their own, which is a context manager:
\*   def dep_factory(svcs_container): b = ...; return closing(A(b))
\*   def dep_gen_factory(svcs_container): b = ...; yield A(b); cleanup
\*   async def async_dep_factory(svcs_container): b = ...; return closing(A(b))
\*   async def async_dep_gen_factory(svcs_container): b = ...; yield A(b); ...
\* and generator factories that raise ValueError before their yield.
DepFactories ==
    {"dep_factory", "dep_gen_factory", "async_dep_factory",
     "async_dep_gen_factory"}
EnterBoomFactories == {"enter_boom_gen_factory", "async_enter_boom_gen_factory"}

\* When the code of a factory up to its return or yield runs: a function's
\* when it is called, a coroutine function's when the coroutine is awaited,
\* a generator's when the context manager made of it is entered.
body_runs(f) ==
    CASE f \in {"dep_factory"} -> "call"
      [] f \in {"async_dep_factory"} -> "await"
      [] f \in {"dep_gen_factory", "enter_boom_gen_factory"} -> "__enter__"
      [] f \in {"async_dep_gen_factory", "async_enter_boom_gen_factory"} ->
            "__aenter__"
      [] OTHER -> "never"

\* on_registry_close callbacks: "aclose" is an async def, "aclose_awaitable"
\* the coroutine object a call of it returns, the others are plain
\* functions; "boom_close" raises Exception. Ping callables: "aping" is an
\* async def, "ping" a plain function.
iscoroutinefunction(oc) == oc \in {"aclose", "aping"}
isawaitable_hook(oc) == oc = "aclose_awaitable"
HookRaises(oc) == oc = "boom_close"

\* A parameter of a factory: its name and its annotation as written. The
\* annotation "Container" is the class, "'svcs.Container'" and "'Container'"
\* are string annotations, "empty" is inspect.Parameter.empty.
Parameter(name, annotation) == [name |-> name, annotation |-> annotation]

\* The parameters of each factory, all of them required.
Parameters(f) ==
    CASE f = "container_name_factory" ->
            <<Parameter("svcs_container", "empty")>>
      [] f = "container_annotation_factory" ->
            <<Parameter("foo", "Container")>>
      [] f = "container_str_annotation_factory" ->
            <<Parameter("foo", "'svcs.Container'")>>
      [] f = "one_param_factory" -> <<Parameter("foo", "empty")>>
      [] f = "int_annotation_factory" -> <<Parameter("foo", "int")>>
      [] f = "two_param_factory" ->
            <<Parameter("foo", "empty"), Parameter("bar", "empty")>>
      [] f = "container_and_more_factory" ->
            <<Parameter("svcs_container", "empty"), Parameter("bar", "empty")>>
      [] f \in DepFactories -> <<Parameter("svcs_container", "empty")>>
      [] OTHER -> <<>>

\* inspect.signature(factory) raises, with or without eval_str.
signature_raises(f) == f = "uninspectable_factory"

\* _takes_container: inspect.signature(factory, locals={"Container":
\* Container}, eval_str=True) evaluates string annotations; "'svcs.Container'"
\* does not evaluate (no name svcs), and then the signature is taken again
\* without eval_str, leaving the annotations as written.
eval_str_raises(f) ==
    \E i \in 1..Len(Parameters(f)) :
       Parameters(f)[i].annotation = "'svcs.Container'"
eval_annotation(a) == IF a = "'Container'" THEN "Container" ELSE a
signature(f) ==
    IF eval_str_raises(f) THEN Parameters(f)
    ELSE [i \in 1..Len(Parameters(f)) |->
             Parameter(Parameters(f)[i].name,
                       eval_annotation(Parameters(f)[i].annotation))]

\* _takes_container(factory)
takes_container_never(f) == FALSE
takes_container(f) ==
    IF signature_raises(f) THEN FALSE
    ELSE IF signature(f) = <<>> THEN FALSE
    ELSE LET p == signature(f)[1]
         IN \/ p.name = "svcs_container"
            \/ p.annotation \in {"Container", "'svcs.Container'", "'Container'"}

\* The requests the async adapters serve, and a request that has not come in.
Requests == {"r1", "r2"}
NoRequest == [scope |-> None, container |-> None, state |-> "none"]

\* _KEY_REGISTRY, the key of the registry on the lifespan state.
KEY_REGISTRY == "svcs_registry"

\* A dict is the set of its (key, value) items. What the user's lifespan
\* function yields is None or a dict.
YieldsNone == [none |-> TRUE, items |-> {}]
YieldsDict(items) == [none |-> FALSE, items |-> items]

\* lifespan(): attrs.field(factory=dict) for _state, not yet called.
NewLifespan == [phase |-> "new", state |-> {}]

\* svcs.pyramid: a request the tween has not seen.
NoPyramidRequest == [phase |-> "none", container |-> None,
                     finished_callbacks |-> <<>>]

\* The coroutines that run interleaved, and one that is not running.
Tasks == {"t1", "t2"}
Idle == [pc |-> "idle"]

\* attrs.NOTHING, the marker of a cache miss.
NOTHING ==
    [kind |-> "NOTHING", f |-> None, t |-> None, id |-> 0, entered |-> ""]
\* No RegisteredService: the lookup raises ServiceNotFoundError.
NotRegistered ==
    [svc_type |-> None, factory |-> None, takes_container |-> FALSE,
     enter |-> FALSE, name |-> None, ping |-> None]

\* --------------------------------------------------------------- the state
VARIABLES
    services,             \* Registry._services, per registry
    reg_on_close,         \* Registry._on_close, per registry
    lazy_local_registry,  \* Container._lazy_local_registry is not None
    instantiated,         \* Container._instantiated
    on_close,             \* Container._on_close
    factory_calls,        \* factory invocations per type, as a factory
                          \* counting its calls sees them
    pings_held,           \* the ServicePings the last get_pings returned
    trace,                \* what the last operation did, in order
    last,                 \* the last operation and how it ended
    containers_created,   \* how many Container objects the adapters made
    flask_g,              \* svcs.flask: the container stored on flask.g
    requests,             \* async adapters: each request's scope and the
                          \* container stored on it
    lifespan,             \* svcs.starlette / svcs.fastapi: the lifespan object
    pyramid_requests,     \* svcs.pyramid: each request's reified container
                          \* and its finished callbacks
    tasks                 \* the coroutines suspended at an await

\* The state of the framework adapters.
adapters ==
    <<containers_created, flask_g, requests, lifespan, pyramid_requests>>

vars == <<services, reg_on_close, lazy_local_registry, instantiated,
          on_close, factory_calls, pings_held, trace, last, adapters,
          tasks>>

\* Factory invocations so far, of all factories.
ncalls == factory_calls["A"] + factory_calls["B"] + factory_calls["C"]

NoServices == [t \in Types |-> NotRegistered]
NoInstances == [t \in Types |-> NOTHING]

RegisteredService_always_enter(t, f, enter, ping) ==
    [svc_type |-> t, factory |-> f, takes_container |-> takes_container(f),
     enter |-> TRUE, name |-> t, ping |-> ping]
RegisteredService(t, f, enter, ping) ==
    [svc_type |-> t, factory |-> f, takes_container |-> takes_container(f),
     enter |-> enter, name |-> t, ping |-> ping]

\* Container.get / aget: if len(rv) == 1: return rv[0]; return rv. `single`
\* tells whether the value is one service or the list of them.
get_returns_list(rv) == [single |-> FALSE, value |-> rv]
get_returns(rv) ==
    IF Len(rv) = 1 THEN [single |-> TRUE, value |-> rv[1]]
    ELSE [single |-> FALSE, value |-> rv]

\* How an operation ended: the exception it raised ("" when it returned) with
\* the exception's args[0], the services it resolved, and for a get/aget
\* that returned, its return value.
Result(op, c, arg, err, errarg, rv) ==
    [op |-> op, c |-> c, arg |-> arg, err |-> err, errarg |-> errarg,
     rv |-> rv,
     ret |-> IF op \in {"get", "aget"} /\ err = "" THEN get_returns(rv)
             ELSE None]

Init ==
    /\ services = [r \in Registries |-> NoServices]
    /\ reg_on_close = [r \in Registries |-> <<>>]
    /\ lazy_local_registry = [c \in Containers |-> FALSE]
    /\ instantiated = [c \in Containers |-> NoInstances]
    /\ on_close = [c \in Containers |-> <<>>]
    /\ factory_calls = [t \in Types |-> 0]
    /\ pings_held = <<>>
    /\ trace = <<>>
    /\ last = Result("init", None, <<>>, "", None, <<>>)
    /\ containers_created = 0
    /\ flask_g = None
    /\ requests = [r \in Requests |-> NoRequest]
    /\ lifespan = NewLifespan
    /\ pyramid_requests = [r \in Requests |-> NoPyramidRequest]
    /\ tasks = [k \in Tasks |-> Idle]

\* ------------------------------------------------------------ the helpers
reversed_forward(s) == s
reversed(s) == [i \in 1..Len(s) |-> s[Len(s) + 1 - i]]

RECURSIVE Concat(_)
Concat(ss) == IF ss = <<>> THEN <<>> ELSE Head(ss) \o Concat(Tail(ss))

\* One observable effect of an operation: a cleanup that was run ("exit",
\* "aexit", with the exception handed to it), a shutdown hook that was called
\* or awaited ("call", "await"), a warnings.warn ("warn") or a log.warning
\* record ("log"), each with the service name it is tagged with.
Event(ev, name, id, oc) ==
    [ev |-> ev, name |-> name, id |-> id, oc |-> oc, exc |-> None]

\* ------------------------------------------------------------ the Registry
\* Registry._register_factory: the service map after registering.
register_services(svcs, t, f, enter, ping) ==
    [svcs EXCEPT ![t] = RegisteredService(t, f, enter, ping)]

\* Registry._register_factory: the hook list after registering.
register_on_close_replacing(hooks, t, oc) ==
    LET kept == SelectSeq(hooks, LAMBDA h : h.name # t)
    IN IF oc # None THEN Append(kept, [name |-> t, oc |-> oc]) ELSE kept
register_on_close(hooks, t, oc) ==
    IF oc # None THEN Append(hooks, [name |-> t, oc |-> oc]) ELSE hooks

\* Registry.close, the body of the loop for one (name, oc).
registry_close_one_runs_async(h) ==
    <<Event("call", h.name, 0, h.oc)>>
    \o (IF HookRaises(h.oc) THEN <<Event("log", h.name, 0, h.oc)>>
        ELSE <<>>)
registry_close_one(h) ==
    IF iscoroutinefunction(h.oc) \/ isawaitable_hook(h.oc)
    THEN <<Event("warn", h.name, 0, h.oc)>>
    ELSE <<Event("call", h.name, 0, h.oc)>>
         \o (IF HookRaises(h.oc) THEN <<Event("log", h.name, 0, h.oc)>>
             ELSE <<>>)

\* Registry.aclose, the body of the loop for one (name, oc).
registry_aclose_one(h) ==
    IF iscoroutinefunction(h.oc) \/ isawaitable_hook(h.oc)
    THEN <<Event("await", h.name, 0, h.oc)>>
    ELSE <<Event("call", h.name, 0, h.oc)>>
         \o (IF HookRaises(h.oc) THEN <<Event("log", h.name, 0, h.oc)>>
             ELSE <<>>)

\* Registry.close: everything the loop over reversed(self._on_close) does.
registry_close_events_forward(hooks) ==
    Concat([i \in 1..Len(hooks) |-> registry_close_one(hooks[i])])
registry_close_events(hooks) ==
    Concat([i \in 1..Len(hooks) |-> registry_close_one(reversed(hooks)[i])])

\* Registry.aclose: everything the loop over reversed(self._on_close) does.
registry_aclose_events_forward(hooks) ==
    Concat([i \in 1..Len(hooks) |-> registry_aclose_one(hooks[i])])
registry_aclose_events(hooks) ==
    Concat([i \in 1..Len(hooks) |-> registry_aclose_one(reversed(hooks)[i])])

\* Registry.close / aclose: self._services.clear(); self._on_close.clear()
registry_cleared_services(svcs) == NoServices
registry_cleared_on_close_kept(hooks) == hooks
registry_cleared_on_close(hooks) == <<>>

\* ----------------------------------------------------------- the Container
\* Container.close, the body of the loop for one (name, cm).
container_close_one_runs_async(e) ==
    <<Event(IF isinstance_AbstractAsyncContextManager(e.cm)
            THEN "aexit" ELSE "exit", e.name, e.cm.id, "")>>
    \o (IF ExitRaises(e.cm) THEN <<Event("log", e.name, e.cm.id, "")>>
        ELSE <<>>)
container_close_one(e) ==
    IF isinstance_AbstractAsyncContextManager(e.cm)
    THEN <<Event("warn", e.name, e.cm.id, "")>>
    ELSE <<Event("exit", e.name, e.cm.id, "")>>
         \o (IF ExitRaises(e.cm) THEN <<Event("log", e.name, e.cm.id, "")>>
             ELSE <<>>)

\* Container.aclose, the body of the loop for one (name, cm).
container_aclose_one(e) ==
    (IF isinstance_AbstractContextManager(e.cm)
     THEN <<Event("exit", e.name, e.cm.id, "")>>
     ELSE <<Event("aexit", e.name, e.cm.id, "")>>)
    \o (IF ExitRaises(e.cm) THEN <<Event("log", e.name, e.cm.id, "")>>
        ELSE <<>>)

\* Container.close: everything the loop over reversed(self._on_close) does.
RECURSIVE container_close_events_unguarded(_)
container_close_events_unguarded(stack) ==
    IF stack = <<>> THEN <<>>
    ELSE LET e == stack[Len(stack)] IN
         IF ~isinstance_AbstractAsyncContextManager(e.cm) /\ ExitRaises(e.cm)
         THEN <<Event("exit", e.name, e.cm.id, "")>>
         ELSE container_close_one(e)
              \o container_close_events_unguarded(SubSeq(stack, 1, Len(stack) - 1))
container_close_events(stack) ==
    Concat([i \in 1..Len(stack) |-> container_close_one(reversed(stack)[i])])

\* Container.aclose: everything the loop over reversed(self._on_close) does.
container_aclose_events(stack) ==
    Concat([i \in 1..Len(stack) |-> container_aclose_one(reversed(stack)[i])])

\* Container.close / aclose: self._on_close.clear(); self._instantiated.clear()
container_cleared_on_close_kept(stack) == stack
container_cleared_on_close(stack) == <<>>
container_cleared_instantiated_kept(inst) == inst
container_cleared_instantiated(inst) == NoInstances

\* Container._lookup, cache miss: the local registry first, when there is
\* one, then the shared registry. NotRegistered: ServiceNotFoundError.
lookup_registration_shared_only(c, t) == services[App][t]
lookup_registration(c, t) ==
    LET loc == IF lazy_local_registry[c] THEN services[c][t]
               ELSE NotRegistered
    IN IF loc # NotRegistered THEN loc ELSE services[App][t]

\* The part of the state one get/aget call works on: the cache, the release
\* stack, the objects produced so far, the result list and the exception.
Frame(c) ==
    [inst |-> instantiated[c], stack |-> on_close[c], factory_calls |-> factory_calls,
     calls |-> <<>>, rv |-> <<>>, err |-> "", errarg |-> None]

\* Container._lookup: whether svc_type is in the cache.
cached_truthy(S, t) == S.inst[t] \notin {NOTHING, NoneObject}
cached(S, t) == S.inst[t] # NOTHING

\* Registry.get_registered_service_for, KeyError: raise
\* ServiceNotFoundError(svc_type).
not_found_forgot_type(S, t) ==
    [S EXCEPT !.err = "ServiceNotFoundError", !.errarg = None]
not_found(S, t) == [S EXCEPT !.err = "ServiceNotFoundError", !.errarg = t]

\* Container._lookup: the arguments of the call of rs.factory.
factory_args(c, rs) == IF rs.takes_container THEN <<c>> ELSE <<>>

\* Whether the call binds: every parameter is required, so Python raises
\* TypeError unless as many arguments are passed as there are parameters. A
\* callable without an inspectable signature is one called without arguments.
call_accepted_always(c, rs) == TRUE
call_accepted(c, rs) ==
    Len(factory_args(c, rs)) = Len(Parameters(rs.factory))

\* Container._lookup: the call of rs.factory raised TypeError (missing or
\* unexpected positional argument); the factory's body did not run.
call_rejected(S, t) ==
    [S EXCEPT !.err = "TypeError", !.errarg = "factory arguments"]

\* Container._lookup: svc = rs.factory(...); one more object exists.
factory_called(S, c, t, rs) ==
    [S EXCEPT !.factory_calls[t] = @ + 1,
              !.calls = Append(@, [ev |-> "call", name |-> rs.name,
                                   id |-> S.factory_calls[t] + 1, oc |-> "",
                                   exc |-> None,
                                   args |-> factory_args(c, rs)])]

\* Container.get: what makes it raise TypeError.
needs_aget_coroutines_only(svc) == iscoroutine(svc)
needs_aget(svc) ==
    iscoroutine(svc) \/ isinstance_AbstractAsyncContextManager(svc)

\* Container.get / aget: self._on_close.append((name, svc))
push(S, name, svc) ==
    [S EXCEPT !.stack = Append(@, [name |-> name, cm |-> svc])]

\* Container.get / aget: self._on_close.append((name, svc)) comes before
\* svc.__enter__() / await svc.__aenter__().
push_before_enter(S, name, svc) == push(S, name, svc)

\* Container.get / aget: self._instantiated[svc_type] = svc; rv.append(svc)
cache_forgotten(S, t, svc) == [S EXCEPT !.rv = Append(@, svc)]
cache(S, t, svc) == [S EXCEPT !.inst[t] = svc, !.rv = Append(@, svc)]

\* svc.__enter__() / await svc.__aenter__() has returned: the context
\* manager, wherever the release stack holds it, is an entered one.
entered_sync(S, svc) ==
    [S EXCEPT !.stack = [i \in 1..Len(S.stack) |->
                            IF S.stack[i].cm = svc
                            THEN [S.stack[i] EXCEPT !.cm = cm__enter__(svc)]
                            ELSE S.stack[i]]]
aentered(S, svc) ==
    [S EXCEPT !.stack = [i \in 1..Len(S.stack) |->
                            IF S.stack[i].cm = svc
                            THEN [S.stack[i] EXCEPT !.cm = cm__aenter__(svc)]
                            ELSE S.stack[i]]]

\* The exception a factory's code raises before its yield.
body_raised(S, f) == [S EXCEPT !.err = "ValueError", !.errarg = f]

\* Container.get, the body of the loop for one svc_type.
RECURSIVE get_one(_, _, _)

\* The code of factory f runs at the moment `at` of a get: it raises, or
\* acquires its dependency from the container with a get of its own, whose
\* exception is the factory's, or does nothing to the container.
body_get(c, S, f, at) ==
    IF S.err # "" \/ body_runs(f) # at THEN S
    ELSE IF f \in EnterBoomFactories THEN body_raised(S, f)
    ELSE [get_one(c, [S EXCEPT !.rv = <<>>], "B") EXCEPT !.rv = S.rv]

get_one(c, S, t) ==
    IF S.err # "" THEN S
    ELSE IF cached(S, t) THEN [S EXCEPT !.rv = Append(@, S.inst[t])]
    ELSE
      LET rs == lookup_registration(c, t) IN
      IF rs = NotRegistered THEN not_found(S, t)
      ELSE IF ~call_accepted(c, rs) THEN call_rejected(S, t)
      ELSE
        LET svc == CallFactory(rs.factory, t, S.factory_calls[t] + 1)
            S1 == body_get(c, factory_called(S, c, t, rs), rs.factory, "call")
        IN
        IF S1.err # "" THEN S1
        ELSE IF needs_aget(svc) THEN [S1 EXCEPT !.err = "TypeError"]
        ELSE IF rs.enter /\ isinstance_AbstractContextManager(svc)
        THEN LET S2 == body_get(c, push_before_enter(S1, rs.name, svc),
                                rs.factory, "__enter__")
             IN IF S2.err # "" THEN S2
                ELSE cache(entered_sync(S2, svc), t, Entered(svc))
        ELSE cache(S1, t, svc)

\* Container.aget, after the awaitable of an async factory was awaited: a
\* context manager it returned is entered.
aget_awaited_unentered(S, t, rs, svc) == cache(S, t, svc)
aget_awaited(S, t, rs, svc) ==
    IF rs.enter /\ isinstance_AbstractAsyncContextManager(svc)
    THEN cache(push(S, rs.name, cm__aenter__(svc)), t, Entered(svc))
    ELSE IF rs.enter /\ isinstance_AbstractContextManager(svc)
    THEN cache(push(S, rs.name, cm__enter__(svc)), t, Entered(svc))
    ELSE cache(S, t, svc)

\* Container.aget, the body of the loop for one svc_type.
RECURSIVE aget_one(_, _, _)

\* The code of factory f runs at the moment `at` of an aget: a synchronous
\* factory acquires its dependency with get, an asynchronous one with aget.
body_aget(c, S, f, at) ==
    IF S.err # "" \/ body_runs(f) # at THEN S
    ELSE IF f \in EnterBoomFactories THEN body_raised(S, f)
    ELSE IF at \in {"call", "__enter__"}
    THEN [get_one(c, [S EXCEPT !.rv = <<>>], "B") EXCEPT !.rv = S.rv]
    ELSE [aget_one(c, [S EXCEPT !.rv = <<>>], "B") EXCEPT !.rv = S.rv]

aget_one(c, S, t) ==
    IF S.err # "" THEN S
    ELSE IF cached(S, t) THEN [S EXCEPT !.rv = Append(@, S.inst[t])]
    ELSE
      LET rs == lookup_registration(c, t) IN
      IF rs = NotRegistered THEN not_found(S, t)
      ELSE IF ~call_accepted(c, rs) THEN call_rejected(S, t)
      ELSE
        LET svc == CallFactory(rs.factory, t, S.factory_calls[t] + 1)
            S1 == body_aget(c, factory_called(S, c, t, rs), rs.factory, "call")
        IN
        IF S1.err # "" THEN S1
        ELSE IF rs.enter /\ isinstance_AbstractAsyncContextManager(svc)
        THEN LET S2 == body_aget(c, push_before_enter(S1, rs.name, svc),
                                 rs.factory, "__aenter__")
             IN IF S2.err # "" THEN S2
                ELSE cache(aentered(S2, svc), t, Entered(svc))
        ELSE IF rs.enter /\ isinstance_AbstractContextManager(svc)
        THEN LET S2 == body_aget(c, push_before_enter(S1, rs.name, svc),
                                 rs.factory, "__enter__")
             IN IF S2.err # "" THEN S2
                ELSE cache(entered_sync(S2, svc), t, Entered(svc))
        ELSE IF isawaitable(svc)
        THEN LET S2 == body_aget(c, S1, rs.factory, "await")
             IN IF S2.err # "" THEN S2
                ELSE aget_awaited(S2, t, rs, Awaited(svc))
        ELSE cache(S1, t, svc)

\* Container.get: the loop over svc_types. An exception leaves the loop
\* with what the earlier iterations did in place.
RECURSIVE get_all_rolled_back(_, _, _)
get_all_rolled_back(c, S, svc_types) ==
    IF svc_types = <<>> THEN S
    ELSE LET R == get_all_rolled_back(c, get_one(c, S, Head(svc_types)),
                                      Tail(svc_types))
         IN IF R.err # "" THEN [R EXCEPT !.inst = S.inst, !.stack = S.stack]
            ELSE R

RECURSIVE get_all(_, _, _)
get_all(c, S, svc_types) ==
    IF svc_types = <<>> THEN S
    ELSE get_all(c, get_one(c, S, Head(svc_types)), Tail(svc_types))

RECURSIVE aget_all(_, _, _)
aget_all(c, S, svc_types) ==
    IF svc_types = <<>> THEN S
    ELSE aget_all(c, aget_one(c, S, Head(svc_types)), Tail(svc_types))

\* ------------------------------------------------------------- the actions
\* Registry.register_factory on the shared registry.
Registry_register_factory(t, f, enter, ping, oc) ==
    /\ oc # None => Len(reg_on_close[App]) < MaxHooks
    /\ services' =
          [services EXCEPT ![App] = register_services(@, t, f, enter, ping)]
    /\ reg_on_close' = [reg_on_close EXCEPT ![App] = register_on_close(@, t, oc)]
    /\ trace' = <<>>
    /\ last' = Result("register_factory", App, <<t>>, "", None, <<>>)
    /\ UNCHANGED <<lazy_local_registry, instantiated, on_close,
                   factory_calls, pings_held,
                   adapters, tasks>>

\* Container.register_local_factory: the local registry is created on first
\* use, then the registration goes to it.
Container_register_local_factory(c, t, f, enter, ping, oc) ==
    /\ oc # None => Len(reg_on_close[c]) < MaxHooks
    /\ lazy_local_registry' = [lazy_local_registry EXCEPT ![c] = TRUE]
    /\ services' =
          [services EXCEPT ![c] = register_services(@, t, f, enter, ping)]
    /\ reg_on_close' = [reg_on_close EXCEPT ![c] = register_on_close(@, t, oc)]
    /\ trace' = <<>>
    /\ last' = Result("register_local_factory", c, <<t>>, "", None, <<>>)
    /\ UNCHANGED <<instantiated, on_close,
                   factory_calls, pings_held,
                   adapters, tasks>>

\* Registry.register_value on the shared registry: register_factory with
\* lambda: value.
Registry_register_value(t, value, enter, ping, oc) ==
    Registry_register_factory(t, value, enter, ping, oc)

\* Container.register_local_value: register_local_factory with lambda: value.
Container_register_local_value(c, t, value, enter, ping, oc) ==
    Container_register_local_factory(c, t, value, enter, ping, oc)

\* ServicePing(name, is_async, svc_type, ping, container)
ServicePing(name, is_async, svc_type, ping, container) ==
    [name |-> name, is_async |-> is_async, svc_type |-> svc_type,
     ping |-> ping, container |-> container]

\* Container.get_pings: the second argument of ServicePing(...).
ping_is_async_never(rs) == FALSE
ping_is_async(rs) == iscoroutinefunction(rs.ping)

\* Container.get_pings: self.registry._services.values(), in the order of
\* the dict (here: the order of the types).
TypeOrder == <<"A", "B", "C">>
registry_services_values(c) ==
    LET ts == SelectSeq(TypeOrder, LAMBDA t : services[App][t] # NotRegistered)
    IN [i \in 1..Len(ts) |-> services[App][ts[i]]]

\* Container.get_pings: the list comprehension.
get_pings(c) ==
    LET rss == SelectSeq(registry_services_values(c),
                         LAMBDA rs : rs.ping # None)
    IN [i \in 1..Len(rss) |->
          ServicePing(rss[i].name, ping_is_async(rss[i]), rss[i].svc_type,
                      rss[i].ping, c)]

\* Container.get_pings()
Container_get_pings_eager(c) ==
    LET sps == get_pings(c)
        S == get_all(c, Frame(c), [i \in 1..Len(sps) |-> sps[i].svc_type])
    IN /\ pings_held' = sps
       /\ instantiated' = [instantiated EXCEPT ![c] = S.inst]
       /\ on_close' = [on_close EXCEPT ![c] = S.stack]
       /\ factory_calls' = S.factory_calls
       /\ trace' = <<>>
       /\ last' = Result("get_pings", c, <<>>, "", None, <<>>)
       /\ UNCHANGED <<services, reg_on_close, lazy_local_registry,
                      adapters, tasks>>
Container_get_pings(c) ==
    /\ pings_held' = get_pings(c)
    /\ trace' = <<>>
    /\ last' = Result("get_pings", c, <<>>, "", None, <<>>)
    /\ UNCHANGED <<services, reg_on_close, lazy_local_registry, instantiated,
                   on_close, factory_calls,
                   adapters, tasks>>

\* ServicePing.ping: svc = self._container.get(self._svc_type)
ping_get_uncached(sp) ==
    get_all(sp.container,
            [Frame(sp.container) EXCEPT !.inst = NoInstances],
            <<sp.svc_type>>)
ping_get(sp) == get_all(sp.container, Frame(sp.container), <<sp.svc_type>>)

\* ServicePing.aping: svc = await self._container.aget(self._svc_type)
aping_aget(sp) == aget_all(sp.container, Frame(sp.container), <<sp.svc_type>>)

\* ServicePing.ping: self._ping(svc). Calling an async def ping callable
\* only creates a coroutine, which nothing awaits.
ping_call(sp, svc) ==
    <<Event(IF iscoroutinefunction(sp.ping) THEN "ping_unawaited" ELSE "ping",
            sp.name, svc.id, sp.ping)>>

\* ServicePing.aping: await self._ping(svc) if self.is_async, else
\* self._ping(svc).
aping_call(sp, svc) ==
    IF sp.is_async THEN <<Event("aping", sp.name, svc.id, sp.ping)>>
    ELSE ping_call(sp, svc)

\* What ServicePing.ping / aping leave behind: the service acquired as S
\* says, then the ping callable called.
ServicePing_pinged(op, sp, S, evs) ==
    /\ instantiated' = [instantiated EXCEPT ![sp.container] = S.inst]
    /\ on_close' = [on_close EXCEPT ![sp.container] = S.stack]
    /\ factory_calls' = S.factory_calls
    /\ trace' = IF S.err = "" THEN evs ELSE <<>>
    /\ last' = Result(op, sp.container, <<sp.svc_type>>, S.err, S.errarg,
                      S.rv)
    /\ UNCHANGED <<services, reg_on_close, lazy_local_registry, pings_held,
                   adapters, tasks>>

\* ServicePing.ping() on the i-th ServicePing the caller holds.
ServicePing_ping(i) ==
    /\ i \in 1..Len(pings_held)
    /\ LET sp == pings_held[i]
           S == ping_get(sp)
       IN ServicePing_pinged("ping", sp, S,
             IF S.err = "" THEN ping_call(sp, S.rv[1]) ELSE <<>>)

\* ServicePing.aping() on the i-th ServicePing the caller holds.
ServicePing_aping(i) ==
    /\ i \in 1..Len(pings_held)
    /\ LET sp == pings_held[i]
           S == aping_aget(sp)
       IN ServicePing_pinged("aping", sp, S,
             IF S.err = "" THEN aping_call(sp, S.rv[1]) ELSE <<>>)

\* The default of the keyword argument enter in register_factory,
\* register_value, register_local_factory and register_local_value.
register_factory_enter == TRUE
register_value_enter == FALSE
register_local_factory_enter == TRUE
register_local_value_enter == FALSE

\* registry.register_factory(svc_type, factory)
Registry_register_factory_default(t, f) ==
    Registry_register_factory(t, f, register_factory_enter, None, None)

\* registry.register_value(svc_type, value)
Registry_register_value_default(t, value) ==
    Registry_register_value(t, value, register_value_enter, None, None)

\* container.register_local_factory(svc_type, factory)
Container_register_local_factory_default(c, t, f) ==
    Container_register_local_factory(c, t, f, register_local_factory_enter,
                                     None, None)

\* container.register_local_value(svc_type, value)
Container_register_local_value_default(c, t, value) ==
    Container_register_local_value(c, t, value, register_local_value_enter,
                                   None, None)

\* Registry.close on the shared registry.
Registry_close ==
    /\ trace' = registry_close_events(reg_on_close[App])
    /\ services' = [services EXCEPT ![App] = registry_cleared_services(@)]
    /\ reg_on_close' =
          [reg_on_close EXCEPT ![App] = registry_cleared_on_close(@)]
    /\ last' = Result("Registry.close", App, <<>>, "", None, <<>>)
    /\ UNCHANGED <<lazy_local_registry, instantiated, on_close,
                   factory_calls, pings_held,
                   adapters, tasks>>

\* Registry.aclose on the shared registry.
Registry_aclose ==
    /\ trace' = registry_aclose_events(reg_on_close[App])
    /\ services' = [services EXCEPT ![App] = registry_cleared_services(@)]
    /\ reg_on_close' =
          [reg_on_close EXCEPT ![App] = registry_cleared_on_close(@)]
    /\ last' = Result("Registry.aclose", App, <<>>, "", None, <<>>)
    /\ UNCHANGED <<lazy_local_registry, instantiated, on_close,
                   factory_calls, pings_held,
                   adapters, tasks>>

\* What Container.get / Container.aget leave behind.
Container_resolved(op, c, svc_types, S) ==
    /\ instantiated' = [instantiated EXCEPT ![c] = S.inst]
    /\ on_close' = [on_close EXCEPT ![c] = S.stack]
    /\ factory_calls' = S.factory_calls
    /\ trace' = S.calls
    /\ last' = Result(op, c, svc_types, S.err, S.errarg, S.rv)
    /\ UNCHANGED <<services, reg_on_close, lazy_local_registry, pings_held>>

\* Container.get / Container.aget on a container used directly.
Container_got(op, c, svc_types, S) ==
    Container_resolved(op, c, svc_types, S) /\ UNCHANGED <<adapters, tasks>>

\* The factory invocations a get/aget of svc_types can need at most: one
\* for each requested type that is not cached.
misses(c, svc_types) ==
    Cardinality({svc_types[i] : i \in {k \in 1..Len(svc_types) :
                                         instantiated[c][svc_types[k]] = NOTHING}})

\* Container.get(*svc_types)
Container_get(c, svc_types) ==
    /\ ncalls + misses(c, svc_types) <= MaxCalls
    /\ Container_got("get", c, svc_types, get_all(c, Frame(c), svc_types))

\* Container.aget(*svc_types), run to completion.
Container_aget(c, svc_types) ==
    /\ ncalls + misses(c, svc_types) <= MaxCalls
    /\ Container_got("aget", c, svc_types, aget_all(c, Frame(c), svc_types))

\* What Container.close / aclose / __exit__ / __aexit__ leave behind: the
\* release stack was walked, the local registry closed, both collections
\* cleared. exc is the exception the operation ends with ("" for none).
local_registry_closed_services_kept(svcs, c) == svcs
local_registry_closed_services_everywhere(svcs, c) ==
    [r \in DOMAIN svcs |-> NoServices]
local_registry_closed_services(svcs, c) ==
    IF lazy_local_registry[c]
    THEN [svcs EXCEPT ![c] = registry_cleared_services(@)] ELSE svcs
local_registry_closed_on_close(hooks, c) ==
    IF lazy_local_registry[c]
    THEN [hooks EXCEPT ![c] = registry_cleared_on_close(@)] ELSE hooks

Container_reset(op, c, arg, evs, exc) ==
    /\ trace' = evs
    /\ services' = local_registry_closed_services(services, c)
    /\ reg_on_close' = local_registry_closed_on_close(reg_on_close, c)
    /\ on_close' = [on_close EXCEPT ![c] = container_cleared_on_close(@)]
    /\ instantiated' =
          [instantiated EXCEPT ![c] = container_cleared_instantiated(@)]
    /\ last' = Result(op, c, arg, exc, None, <<>>)
    /\ UNCHANGED <<lazy_local_registry, factory_calls, pings_held>>

\* close / aclose / __exit__ / __aexit__ of a container used directly.
Container_closed(op, c, arg, evs, exc) ==
    Container_reset(op, c, arg, evs, exc) /\ UNCHANGED <<adapters, tasks>>

\* Container.close: the loop, then the local registry's close.
close_events(c) ==
    container_close_events(on_close[c])
    \o (IF lazy_local_registry[c]
        THEN registry_close_events(reg_on_close[c]) ELSE <<>>)

\* Container.aclose: the loop, then the local registry's aclose.
aclose_events_without_local(c) == container_aclose_events(on_close[c])
aclose_events(c) ==
    container_aclose_events(on_close[c])
    \o (IF lazy_local_registry[c]
        THEN registry_aclose_events(reg_on_close[c]) ELSE <<>>)

Container_close(c) ==
    Container_closed("close", c, <<>>, close_events(c), "")

Container_aclose(c) ==
    Container_closed("aclose", c, <<>>, aclose_events(c), "")

\* What the exits called by Container.__exit__ are handed: __exit__ calls
\* self.close(), which calls cm.__exit__(None, None, None).
exit_events_forwarding(evs, exc_type) ==
    [i \in 1..Len(evs) |->
        IF evs[i].ev \in {"exit", "aexit"}
        THEN [evs[i] EXCEPT !.exc = exc_type] ELSE evs[i]]
exit_events(evs, exc_type) == evs

\* The with statement: the exception raised in the body goes on propagating
\* unless __exit__ returns a true value; Container.__exit__ and __aexit__
\* return None.
propagated(exc_type, returned) ==
    IF exc_type # None /\ returned = None THEN exc_type ELSE ""

Container__exit__returns == None

\* with container: ... left normally (exc_type None) or through an error.
Container__exit__(c, exc_type) ==
    Container_closed("__exit__", c, <<exc_type>>,
                     exit_events(close_events(c), exc_type),
                     propagated(exc_type, Container__exit__returns))

\* async with container: ... left normally or through an error.
Container__aexit__(c, exc_type) ==
    Container_closed("__aexit__", c, <<exc_type>>,
                     exit_events(aclose_events(c), exc_type),
                     propagated(exc_type, Container__exit__returns))

\* ------------------------------------------------------------ svcs.flask
\* Container(registry): the adapters' containers, in the order they are
\* constructed; each is constructed once and starts empty.
ContainerOrder == <<"c1", "c2">>
Container__init__ == ContainerOrder[containers_created + 1]

\* svcs.flask.svcs_from(g): the container on g, made on first access.
svcs_from == IF flask_g = None THEN Container__init__ ELSE flask_g

\* svcs.flask.svcs_from(g): what it leaves on g.
svcs_from_setattr ==
    /\ flask_g = None => containers_created < Len(ContainerOrder)
    /\ flask_g' = svcs_from
    /\ containers_created' =
          IF svcs_from = flask_g THEN containers_created
          ELSE containers_created + 1
    /\ UNCHANGED <<requests, lifespan, pyramid_requests, tasks>>

\* svcs.flask.svcs_from(g), called on its own (as svcs.flask.container is on
\* every access).
Flask_svcs_from ==
    /\ svcs_from_setattr
    /\ trace' = <<>>
    /\ last' = Result("svcs_from", svcs_from, <<>>, "", None, <<>>)
    /\ UNCHANGED <<services, reg_on_close, lazy_local_registry, instantiated,
                   on_close, factory_calls, pings_held>>

\* svcs.flask.get(*svc_types): svcs_from(g).get(*svc_types)
Flask_get(svc_types) ==
    /\ svcs_from_setattr
    /\ Container_resolved("get", svcs_from, svc_types,
                          get_all(svcs_from, Frame(svcs_from), svc_types))

\* svcs.flask.teardown(exc): pops the container from g and closes it.
teardown_keeps_container(con) == con
teardown_pop(con) == None
Flask_teardown ==
    IF flask_g # None
    THEN /\ flask_g' = teardown_pop(flask_g)
         /\ Container_reset("teardown", flask_g, <<>>, close_events(flask_g),
                            "")
         /\ UNCHANGED <<containers_created, requests, lifespan,
                        pyramid_requests, tasks>>
    ELSE /\ trace' = <<>>
         /\ last' = Result("teardown", None, <<>>, "", None, <<>>)
         /\ UNCHANGED <<services, reg_on_close, lazy_local_registry,
                        instantiated, on_close, factory_calls, pings_held,
                        adapters, tasks>>

\* svcs.flask.overwrite_factory: container = svcs_from();
\* container.registry.register_factory(...); container.close()
overwrite_cleared_instantiated_kept(inst) == inst
overwrite_cleared_instantiated(inst) == container_cleared_instantiated(inst)
Flask_overwrite_factory(t, f, enter, ping, oc) ==
    LET con == svcs_from IN
    /\ oc # None => Len(reg_on_close[App]) < MaxHooks
    /\ svcs_from_setattr
    /\ services' =
          local_registry_closed_services(
             [services EXCEPT ![App] = register_services(@, t, f, enter, ping)],
             con)
    /\ reg_on_close' =
          local_registry_closed_on_close(
             [reg_on_close EXCEPT ![App] = register_on_close(@, t, oc)], con)
    /\ trace' = close_events(con)
    /\ on_close' = [on_close EXCEPT ![con] = container_cleared_on_close(@)]
    /\ instantiated' =
          [instantiated EXCEPT ![con] = overwrite_cleared_instantiated(@)]
    /\ last' = Result("overwrite_factory", con, <<t>>, "", None, <<>>)
    /\ UNCHANGED <<lazy_local_registry, factory_calls, pings_held>>

\* svcs.flask.overwrite_value: the same with registry.register_value.
Flask_overwrite_value(t, value, enter, ping, oc) ==
    Flask_overwrite_factory(t, value, enter, ping, oc)

\* --------------------------------- svcs.aiohttp, svcs.starlette, svcs.fastapi
\* What a request comes in through: the aiohttp middleware, the Starlette
\* middleware with the type of the ASGI scope, or the FastAPI dependency.
Scopes ==
    {"aiohttp", "starlette.http", "starlette.websocket",
     "starlette.lifespan", "fastapi"}

\* SVCSMiddleware.__call__: scope["type"] not in ("http", "websocket") passes
\* the call on without a container.
has_container(scope) == scope # "starlette.lifespan"

\* svcs_middleware / SVCSMiddleware.__call__ / svcs.fastapi.container, up to
\* the await of the handler: async with svcs.Container(registry) as con, and
\* the container is stored on the request.
svcs_middleware_enter(r, scope) ==
    /\ requests[r] = NoRequest
    /\ has_container(scope) => containers_created < Len(ContainerOrder)
    /\ requests' =
          [requests EXCEPT ![r] =
              [scope |-> scope,
               container |-> IF has_container(scope) THEN Container__init__
                             ELSE None,
               state |-> "handling"]]
    /\ containers_created' = IF has_container(scope)
                             THEN containers_created + 1
                             ELSE containers_created
    /\ trace' = <<>>
    /\ last' = Result("middleware", requests'[r].container, <<r>>, "", None,
                      <<>>)
    /\ UNCHANGED <<services, reg_on_close, lazy_local_registry, instantiated,
                   on_close, factory_calls, pings_held, flask_g, lifespan,
                   pyramid_requests, tasks>>

\* The handler, while the middleware awaits it: await aget(request, svc_type)
handler_aget(r, svc_types) ==
    /\ requests[r].state = "handling"
    /\ requests[r].container # None
    /\ Container_got("aget", requests[r].container, svc_types,
                     aget_all(requests[r].container,
                              Frame(requests[r].container), svc_types))

\* The handler returned (exc_type None) or raised: the async with block is
\* left through Container.__aexit__, and the error goes on to the framework.
middleware_exit_events_skipped(c) == <<>>
middleware_exit_events(c) == aclose_events(c)
svcs_middleware_exit(r, exc_type) ==
    /\ requests[r].state = "handling"
    /\ requests' = [requests EXCEPT ![r].state = "done"]
    /\ IF requests[r].container # None
       THEN Container_reset("__aexit__", requests[r].container, <<r, exc_type>>,
                            exit_events(
                               middleware_exit_events(requests[r].container),
                               exc_type),
                            propagated(exc_type, Container__exit__returns))
       ELSE /\ trace' = <<>>
            /\ last' = Result("passthrough", None, <<r, exc_type>>,
                              propagated(exc_type, None), None, <<>>)
            /\ UNCHANGED <<services, reg_on_close, lazy_local_registry,
                           instantiated, on_close, factory_calls, pings_held>>
    /\ UNCHANGED <<containers_created, flask_g, lifespan, pyramid_requests,
                   tasks>>

\* ------------------------------ svcs.starlette.lifespan, svcs.fastapi.lifespan
\* state or {}: None and the empty dict are replaced by a new dict.
state_or_empty(state) == IF state.none THEN {} ELSE state.items

\* d[k] = v
setitem(d, k, v) == {item \in d : item[1] # k} \cup {<<k, v>>}

\* lifespan.__call__: self._state = state or {};
\* self._state[_KEY_REGISTRY] = self.registry
lifespan_state_replaced(state) == {<<KEY_REGISTRY, App>>}
lifespan_state(state) == setitem(state_or_empty(state), KEY_REGISTRY, App)

\* lifespan.__call__: leaving `async with self.registry, cm(...)`, with the
\* exception exc (None for none) that the user's lifespan function raised.
\* The registry is the outer context manager: its __aexit__ awaits aclose()
\* whatever the inner one did.
lifespan_exit_events_unless_raised(exc) ==
    IF exc # None THEN <<>> ELSE registry_aclose_events(reg_on_close[App])
lifespan_exit_events(exc) == registry_aclose_events(reg_on_close[App])

\* What leaving the async with block leaves behind.
lifespan_exited(op, arg, exc) ==
    /\ trace' = lifespan_exit_events(exc)
    /\ services' = [services EXCEPT ![App] = registry_cleared_services(@)]
    /\ reg_on_close' =
          [reg_on_close EXCEPT ![App] = registry_cleared_on_close(@)]
    /\ last' = Result(op, App, arg, propagated(exc, None), None, <<>>)

\* The framework enters the lifespan context: the user's lifespan function
\* runs up to its yield and yields state, or raises exc before it gets there.
lifespan__call__enter(state, exc) ==
    /\ lifespan.phase # "running"
    /\ IF exc = None
       THEN /\ lifespan' = [phase |-> "running",
                            state |-> lifespan_state(state)]
            /\ trace' = <<>>
            /\ last' = Result("lifespan_startup", App, <<state>>, "", None,
                              <<>>)
            /\ UNCHANGED <<services, reg_on_close>>
       ELSE /\ lifespan' = [lifespan EXCEPT !.phase = "closed"]
            /\ lifespan_exited("lifespan_startup", <<state>>, exc)
    /\ UNCHANGED <<lazy_local_registry, instantiated, on_close, factory_calls,
                   pings_held, containers_created, flask_g, requests,
                   pyramid_requests, tasks>>

\* The application shuts down: the user's lifespan function runs from its
\* yield to its end, or raises exc on the way.
lifespan__call__exit(exc) ==
    /\ lifespan.phase = "running"
    /\ lifespan' = [lifespan EXCEPT !.phase = "closed"]
    /\ lifespan_exited("lifespan_shutdown", <<exc>>, exc)
    /\ UNCHANGED <<lazy_local_registry, instantiated, on_close, factory_calls,
                   pings_held, containers_created, flask_g, requests,
                   pyramid_requests, tasks>>

\* ------------------------------------------------------------ svcs.pyramid
\* ServicesTween.__call__: request.set_property(make_container,
\* _KEY_CONTAINER, reify=True), then the handler is called. No container is
\* made yet.
ServicesTween__call__(r) ==
    /\ pyramid_requests[r].phase = "none"
    /\ pyramid_requests' = [pyramid_requests EXCEPT ![r].phase = "handling"]
    /\ trace' = <<>>
    /\ last' = Result("tween", None, <<r>>, "", None, <<>>)
    /\ UNCHANGED <<services, reg_on_close, lazy_local_registry, instantiated,
                   on_close, factory_calls, pings_held, containers_created,
                   flask_g, requests, lifespan, tasks>>

\* make_container: request.add_finished_callback(lambda _: con.close())
add_finished_callback_forgotten(callbacks, con) == callbacks
add_finished_callback(callbacks, con) == Append(callbacks, con)

\* svcs.pyramid.svcs_from(request): getattr(request, _KEY_CONTAINER). The
\* property is reified: make_container runs on the first access and its
\* result replaces the property.
pyramid_svcs_from(r) ==
    IF pyramid_requests[r].container = None THEN Container__init__
    ELSE pyramid_requests[r].container

\* svcs.pyramid.svcs_from(request): what the access leaves on the request.
pyramid_svcs_from_setattr(r) ==
    /\ pyramid_requests[r].phase = "handling"
    /\ pyramid_requests[r].container = None =>
          containers_created < Len(ContainerOrder)
    /\ pyramid_requests' =
          IF pyramid_requests[r].container = None
          THEN [pyramid_requests EXCEPT
                  ![r].container = pyramid_svcs_from(r),
                  ![r].finished_callbacks =
                      add_finished_callback(@, pyramid_svcs_from(r))]
          ELSE pyramid_requests
    /\ containers_created' =
          IF pyramid_requests[r].container = None
          THEN containers_created + 1 ELSE containers_created
    /\ UNCHANGED <<flask_g, requests, lifespan, tasks>>

\* svcs.pyramid.svcs_from(request), called by the view.
Pyramid_svcs_from(r) ==
    /\ pyramid_svcs_from_setattr(r)
    /\ trace' = <<>>
    /\ last' = Result("svcs_from", pyramid_svcs_from(r), <<r>>, "", None, <<>>)
    /\ UNCHANGED <<services, reg_on_close, lazy_local_registry, instantiated,
                   on_close, factory_calls, pings_held>>

\* svcs.pyramid.get(request, *svc_types): svcs_from(request).get(*svc_types)
Pyramid_get(r, svc_types) ==
    /\ pyramid_svcs_from_setattr(r)
    /\ Container_resolved("get", pyramid_svcs_from(r), svc_types,
                          get_all(pyramid_svcs_from(r),
                                  Frame(pyramid_svcs_from(r)), svc_types))

\* The request is finished (the view returned or raised): Pyramid calls the
\* finished callbacks in the order they were added, each closing its
\* container.
request_finished(r) ==
    LET callbacks == pyramid_requests[r].finished_callbacks
        closed == {callbacks[i] : i \in 1..Len(callbacks)}
    IN
    /\ pyramid_requests[r].phase = "handling"
    /\ pyramid_requests' =
          [pyramid_requests EXCEPT ![r].phase = "finished",
                                   ![r].finished_callbacks = <<>>]
    /\ trace' = Concat([i \in 1..Len(callbacks) |-> close_events(callbacks[i])])
    /\ services' =
          [reg \in Registries |->
              IF reg \in closed /\ lazy_local_registry[reg]
              THEN registry_cleared_services(services[reg])
              ELSE services[reg]]
    /\ reg_on_close' =
          [reg \in Registries |->
              IF reg \in closed /\ lazy_local_registry[reg]
              THEN registry_cleared_on_close(reg_on_close[reg])
              ELSE reg_on_close[reg]]
    /\ on_close' =
          [c \in Containers |->
              IF c \in closed THEN container_cleared_on_close(on_close[c])
              ELSE on_close[c]]
    /\ instantiated' =
          [c \in Containers |->
              IF c \in closed
              THEN container_cleared_instantiated(instantiated[c])
              ELSE instantiated[c]]
    /\ last' = Result("request_finished", pyramid_requests[r].container,
                      <<r>>, "", None, <<>>)
    /\ UNCHANGED <<lazy_local_registry, factory_calls, pings_held,
                   containers_created, flask_g, requests, lifespan, tasks>>

\* ------------------------------------------------- Container.aget, by steps
\* Container.aget is a coroutine: at `await svc.__aenter__()` and at
\* `await svc` it can be suspended, and other coroutines run on the same
\* container before it goes on. NoAwait: the coroutine ran to its end.
NoAwait == [at |-> "return"]

\* The coroutine suspended in the loop body for svc_type t: what it awaits
\* (at), the locals name and enter of the loop body (rs), the awaited
\* object, and the svc_types still to come.
Await(at, t, rs, svc, rest) ==
    [at |-> at, t |-> t, rs |-> rs, svc |-> svc, rest |-> rest]

\* Container.aget from the head of the loop to the next await or the return.
RECURSIVE aget_until_await(_, _, _)

\* The end of the loop body: R is what it did. Suspended at an await, or on
\* to the next svc_type.
aget_loop_next(c, R, rest) ==
    IF R.await # NoAwait THEN R ELSE aget_until_await(c, R.frame, rest)

\* svc.__enter__() has run, S2 is the container after it: the exception of
\* the resource's code goes on, or the entered service is cached.
aget_after_enter(S2, svc, t) ==
    [frame |-> IF S2.err # "" THEN S2
               ELSE cache(entered_sync(S2, svc), t, Entered(svc)),
     await |-> NoAwait]

\* The factory has been called, S1 is the container after it and svc what
\* the factory returned: the rest of the loop body, to its end or its await.
aget_after_call(c, S1, svc, t, rs, rest) ==
    IF S1.err # "" THEN [frame |-> S1, await |-> NoAwait]
    ELSE IF rs.enter /\ isinstance_AbstractAsyncContextManager(svc)
    THEN [frame |-> push_before_enter(S1, rs.name, svc),
          await |-> Await("__aenter__", t, rs, svc, rest)]
    ELSE IF rs.enter /\ isinstance_AbstractContextManager(svc)
    THEN aget_after_enter(body_aget(c, push_before_enter(S1, rs.name, svc),
                                    rs.factory, "__enter__"), svc, t)
    ELSE IF isawaitable(svc)
    THEN [frame |-> S1, await |-> Await("factory", t, rs, svc, rest)]
    ELSE [frame |-> cache(S1, t, svc), await |-> NoAwait]

\* The loop body for svc_type t, to its end or its await.
aget_loop_body(c, S, t, rest) ==
    IF cached(S, t)
    THEN [frame |-> [S EXCEPT !.rv = Append(@, S.inst[t])], await |-> NoAwait]
    ELSE
      LET rs == lookup_registration(c, t) IN
      IF rs = NotRegistered
      THEN [frame |-> not_found(S, t), await |-> NoAwait]
      ELSE IF ~call_accepted(c, rs)
      THEN [frame |-> call_rejected(S, t), await |-> NoAwait]
      ELSE aget_after_call(
              c, body_aget(c, factory_called(S, c, t, rs), rs.factory, "call"),
              CallFactory(rs.factory, t, S.factory_calls[t] + 1), t, rs, rest)

aget_until_await(c, S, svc_types) ==
    IF svc_types = <<>> \/ S.err # "" THEN [frame |-> S, await |-> NoAwait]
    ELSE aget_loop_next(
            c, aget_loop_body(c, S, Head(svc_types), Tail(svc_types)),
            Tail(svc_types))

\* What was awaited is there, S2 is the container after the awaited code
\* ran: the rest of the loop body, to its end or its next await.
aget_after_awaited(S2, aw) ==
    IF S2.err # "" THEN [frame |-> S2, await |-> NoAwait]
    ELSE IF aw.at = "__aenter__"
    THEN [frame |-> cache(aentered(S2, aw.svc), aw.t, Entered(aw.svc)),
          await |-> NoAwait]
    ELSE
      LET svc == Awaited(aw.svc) IN
      IF aw.rs.enter /\ isinstance_AbstractAsyncContextManager(svc)
      THEN [frame |-> push_before_enter(S2, aw.rs.name, svc),
            await |-> Await("__aenter__", aw.t, aw.rs, svc, aw.rest)]
      ELSE IF aw.rs.enter /\ isinstance_AbstractContextManager(svc)
      THEN [frame |-> cache(push(S2, aw.rs.name, cm__enter__(svc)), aw.t,
                            Entered(svc)),
            await |-> NoAwait]
      ELSE [frame |-> cache(S2, aw.t, svc), await |-> NoAwait]

\* Container.aget from the await it was suspended at to the next await or
\* the return. S is the container as the coroutine finds it when it goes on.
aget_after_await(c, S, aw) ==
    aget_loop_next(
        c,
        aget_after_awaited(
            body_aget(c, S, aw.rs.factory,
                      IF aw.at = "__aenter__" THEN "__aenter__" ELSE "await"),
            aw),
        aw.rest)

\* The container, the factory counts and the positions of the coroutines
\* after coroutine k ran aget on c up to R: suspended again, or returned
\* (or raised) and gone.
aget_stepped(k, c, svc_types, R) ==
    /\ instantiated' = [instantiated EXCEPT ![c] = R.frame.inst]
    /\ on_close' = [on_close EXCEPT ![c] = R.frame.stack]
    /\ factory_calls' = R.frame.factory_calls
    /\ trace' = R.frame.calls
    /\ IF R.await = NoAwait
       THEN /\ tasks' = [tasks EXCEPT ![k] = Idle]
            /\ last' = Result("aget", c, svc_types, R.frame.err,
                              R.frame.errarg, R.frame.rv)
       ELSE /\ tasks' = [tasks EXCEPT ![k] =
                            [pc |-> "aget", c |-> c, arg |-> svc_types,
                             await |-> R.await, rv |-> R.frame.rv]]
            /\ last' = Result("aget_await", c, svc_types, "", None, <<>>)
    /\ UNCHANGED <<services, reg_on_close, lazy_local_registry, pings_held,
                   adapters>>

\* Coroutine k calls container.aget(*svc_types) and is suspended in it.
aget_start(k, c, svc_types) ==
    LET R == aget_until_await(c, Frame(c), svc_types) IN
    /\ tasks[k] = Idle
    /\ ncalls + misses(c, svc_types) <= MaxCalls
    /\ R.await # NoAwait
    /\ aget_stepped(k, c, svc_types, R)

\* What coroutine k awaited is there: its aget goes on.
aget_resume(k) ==
    /\ tasks[k].pc = "aget"
    /\ LET c == tasks[k].c
           S == [Frame(c) EXCEPT !.rv = tasks[k].rv]
       IN /\ ncalls + Len(tasks[k].await.rest) <= MaxCalls
          /\ aget_stepped(k, c, tasks[k].arg,
                          aget_after_await(c, S, tasks[k].await))

\* ----------------------------------------------- Container.aclose, by steps
\* Container.aclose is a coroutine: at `await cm.__aexit__(None, None, None)`
\* it can be suspended, and other coroutines run on the same container
\* before it goes on. The loop is over reversed(self._on_close): the
\* iterator keeps an index into the list, counts it down, and stops when the
\* index is outside the list as the list is at that moment.
\* R is what the loop has done so far: the events and the entries visited;
\* the result says at which index the loop awaits (0: the loop is over).
RECURSIVE aclose_until_await(_, _, _)
aclose_until_await(stack, i, R) ==
    IF i < 1 \/ i > Len(stack)
    THEN [evs |-> R.evs, visited |-> R.visited, index |-> 0]
    ELSE
      LET e == stack[i]
          visited == Append(R.visited, <<e.name, e.cm.id>>)
      IN
      IF isinstance_AbstractContextManager(e.cm)
      THEN aclose_until_await(
              stack, i - 1,
              [evs |-> R.evs \o container_aclose_one(e), visited |-> visited])
      ELSE [evs |-> R.evs \o <<Event("aexit", e.name, e.cm.id, "")>>,
            visited |-> visited, index |-> i, awaiting |-> e]

\* Container.aclose: the awaited cm.__aexit__ returned or raised; except
\* Exception: log.warning(...)
aclose_awaited(e) ==
    IF ExitRaises(e.cm) THEN <<Event("log", e.name, e.cm.id, "")>> ELSE <<>>

\* Container.aclose after its loop: the local registry is closed, then
\* self._on_close.clear(); self._instantiated.clear()
aclose_after_loop(c, R) == container_cleared_on_close(on_close[c])

\* The container and the positions of the coroutines after coroutine k ran
\* aclose on c up to R: suspended in the loop, or through with it.
aclose_stepped(k, c, R) ==
    IF R.index # 0
    THEN /\ tasks' = [tasks EXCEPT ![k] =
                         [pc |-> "aclose", c |-> c, index |-> R.index,
                          awaiting |-> R.awaiting, visited |-> R.visited]]
         /\ trace' = R.evs
         /\ last' = Result("aclose_await", c, <<>>, "", None, <<>>)
         /\ UNCHANGED <<services, reg_on_close, lazy_local_registry,
                        instantiated, on_close, factory_calls, pings_held,
                        adapters>>
    ELSE /\ tasks' = [tasks EXCEPT ![k] = Idle]
         /\ trace' = R.evs \o (IF lazy_local_registry[c]
                                THEN registry_aclose_events(reg_on_close[c])
                                ELSE <<>>)
         /\ services' = local_registry_closed_services(services, c)
         /\ reg_on_close' = local_registry_closed_on_close(reg_on_close, c)
         /\ on_close' = [on_close EXCEPT ![c] = aclose_after_loop(c, R)]
         /\ instantiated' =
               [instantiated EXCEPT ![c] = container_cleared_instantiated(@)]
         /\ last' = Result("aclose", c, <<>>, "", None, <<>>)
         /\ UNCHANGED <<lazy_local_registry, factory_calls, pings_held,
                        adapters>>

\* Coroutine k calls container.aclose() and is suspended in its loop.
aclose_start(k, c) ==
    LET R == aclose_until_await(on_close[c], Len(on_close[c]),
                                [evs |-> <<>>, visited |-> <<>>])
    IN /\ tasks[k] = Idle
       /\ R.index # 0
       /\ aclose_stepped(k, c, R)

\* The __aexit__ coroutine k awaited is through: its aclose goes on.
aclose_resume(k) ==
    /\ tasks[k].pc = "aclose"
    /\ aclose_stepped(
          k, tasks[k].c,
          aclose_until_await(on_close[tasks[k].c], tasks[k].index - 1,
                             [evs |-> aclose_awaited(tasks[k].awaiting),
                              visited |-> tasks[k].visited]))

\* --------------------------------------------------- the specification
SvcTypeArgs == {<<t>> : t \in Types}
BodyErrors == {None, "ValueError"}

\* The service types are interchangeable: they are registered in the order
\* A, B, C, each once, before the first service is resolved.
Earlier(u, t) == <<u, t>> \in {<<"A", "B">>, <<"A", "C">>, <<"B", "C">>}

\* Which type a factory is registered for makes no difference, only which
\* factories are registered: they are taken in one fixed order, values last.
FactoryOrder ==
    << "int_factory", "str_gen_factory", "boom_gen_factory",
       "async_int_factory", "async_str_gen_factory",
       "async_boom_gen_factory", "lambda_value" >>
Before(f, g) ==
    \E i, j \in 1..Len(FactoryOrder) :
        i <= j /\ FactoryOrder[i] = f /\ FactoryOrder[j] = g

MayRegister(t, f) ==
    /\ ncalls = 0
    /\ services[App][t] = NotRegistered
    /\ \A u \in Types :
          Earlier(u, t) => /\ services[App][u] # NotRegistered
                           /\ Before(services[App][u].factory, f)

\* One container on the shared registry: factories are registered with the
\* default enter=True and no hook, values with a shutdown hook.
Next ==
    \/ \E t \in Types, f \in Factories \ {"lambda_value"} :
          MayRegister(t, f) /\ Registry_register_factory(t, f, TRUE, None, None)
    \/ \E t \in Types, oc \in Hooks :
          /\ MayRegister(t, "lambda_value")
          /\ Registry_register_value(t, "lambda_value", FALSE, None, oc)
    \/ Registry_close
    \/ Registry_aclose
    \/ \E a \in SvcTypeArgs : ncalls < MaxCalls /\ Container_get("c1", a)
    \/ \E a \in SvcTypeArgs : ncalls < MaxCalls /\ Container_aget("c1", a)
    \/ Container_close("c1")
    \/ Container_aclose("c1")
    \/ \E e \in BodyErrors : Container__exit__("c1", e)
    \/ \E e \in BodyErrors : Container__aexit__("c1", e)

Spec == Init /\ [][Next]_vars

\* Two containers on one shared registry, each with registrations of its
\* own: one service type, registered in the shared registry and locally in
\* either container, any number of times.
LocalTypes == {"A"}
LocalFactories == {"int_factory", "str_gen_factory", "async_int_factory"}
LocalHooks == {None, "close"}

\* A registry registers a type it has no registration for.
Unregistered(r, t) == services[r][t] = NotRegistered

NextLocal ==
    \/ \E t \in LocalTypes, f \in LocalFactories :
          Unregistered(App, t) /\ Registry_register_factory(t, f, TRUE, None, None)
    \/ \E t \in LocalTypes :
          Unregistered(App, t) /\ Registry_register_value(t, "lambda_value", FALSE, None, None)
    \/ \E c \in Containers, t \in LocalTypes, f \in LocalFactories :
          /\ Unregistered(c, t)
          /\ Container_register_local_factory(c, t, f, TRUE, None, None)
    \/ \E c \in Containers, t \in LocalTypes, oc \in LocalHooks :
          /\ Unregistered(c, t)
          /\ Container_register_local_value(c, t, "lambda_value", FALSE, None, oc)
    \/ \E c \in Containers, t \in LocalTypes :
          ncalls < MaxLocalCalls /\ Container_get(c, <<t>>)
    \/ \E c \in Containers, t \in LocalTypes :
          ncalls < MaxLocalCalls /\ Container_aget(c, <<t>>)
    \/ \E c \in Containers : Container_close(c)
    \/ \E c \in Containers : Container_aclose(c)

SpecLocal == Init /\ [][NextLocal]_vars

\* One container and context managers of every kind, registered as
\* factories or as values, entered automatically or not.
MaxEnterCalls == 2
EnterTypes == {"A", "B"}
EnterFactories ==
    {"str_gen_factory", "async_str_gen_factory", "dual_cm_factory"}
EnterValues == {"lambda_value", "lambda_cm_value"}

\* Registrations are made before the first service is resolved, one per
\* registry and type.
MayRegisterEnter(r, t) == ncalls = 0 /\ Unregistered(r, t)

NextEnter ==
    \/ \E t \in EnterTypes, f \in EnterFactories :
          /\ MayRegisterEnter(App, t)
          /\ Registry_register_factory(t, f, FALSE, None, None)
    \/ \E t \in EnterTypes, f \in EnterFactories :
          MayRegisterEnter(App, t) /\ Registry_register_factory_default(t, f)
    \/ \E t \in EnterTypes, v \in EnterValues :
          /\ MayRegisterEnter(App, t)
          /\ Registry_register_value(t, v, TRUE, None, None)
    \/ \E t \in EnterTypes, v \in EnterValues :
          MayRegisterEnter(App, t) /\ Registry_register_value_default(t, v)
    \/ \E t \in EnterTypes, f \in EnterFactories :
          /\ MayRegisterEnter("c1", t)
          /\ Container_register_local_factory_default("c1", t, f)
    \/ \E t \in EnterTypes, v \in EnterValues :
          /\ MayRegisterEnter("c1", t)
          /\ Container_register_local_value_default("c1", t, v)
    \/ \E t \in EnterTypes :
          ncalls < MaxEnterCalls /\ Container_get("c1", <<t>>)
    \/ \E t \in EnterTypes :
          ncalls < MaxEnterCalls /\ Container_aget("c1", <<t>>)
    \/ Container_close("c1")
    \/ Container_aclose("c1")

SpecEnter == Init /\ [][NextEnter]_vars

\* The shared registry on its own: types are registered and registered
\* again, with shutdown hooks of every kind, and the registry is closed.
MaxRegistryCalls == 1
RegistryTypes == {"A", "B"}
RegistryFactories == {"str_gen_factory"}
RegistryHooks == Hooks \cup {"aclose_awaitable"}

NextRegistry ==
    \/ \E t \in RegistryTypes, f \in RegistryFactories,
          oc \in {None} \cup RegistryHooks :
          Registry_register_factory(t, f, register_factory_enter, None, oc)
    \/ \E t \in RegistryTypes, oc \in {None} \cup RegistryHooks :
          Registry_register_value(t, "lambda_value", register_value_enter,
                                  None, oc)
    \/ Registry_close
    \/ Registry_aclose
    \/ \E t \in RegistryTypes :
          ncalls < MaxRegistryCalls /\ Container_get("c1", <<t>>)

SpecRegistry == Init /\ [][NextRegistry]_vars

\* Health checks: one container on the shared registry, with registrations
\* of its own for A; factories are registered with and without a ping.
MaxPingCalls == 2
PingTypes == {"A", "B"}
LocalPingTypes == {"A"}
PingFactories == {"str_gen_factory", "async_int_factory"}
Pings == {"ping", "aping"}

NextPing ==
    \/ \E t \in PingTypes, f \in PingFactories, ping \in {None} \cup Pings :
          /\ MayRegisterEnter(App, t)
          /\ Registry_register_factory(t, f, register_factory_enter, ping,
                                       None)
    \/ \E t \in LocalPingTypes, f \in PingFactories,
          ping \in {None} \cup Pings :
          /\ MayRegisterEnter("c1", t)
          /\ Container_register_local_factory(
                "c1", t, f, register_local_factory_enter, ping, None)
    \/ Container_get_pings("c1")
    \/ \E i \in 1..Cardinality(PingTypes) :
          ncalls < MaxPingCalls /\ ServicePing_ping(i)
    \/ \E i \in 1..Cardinality(PingTypes) :
          ncalls < MaxPingCalls /\ ServicePing_aping(i)
    \/ \E t \in PingTypes :
          ncalls < MaxPingCalls /\ Container_get("c1", <<t>>)
    \/ Container_close("c1")
    \/ Container_aclose("c1")

SpecPing == Init /\ [][NextPing]_vars

\* aget over every factory shape: plain values, coroutines, sync and async
\* context managers, and coroutines returning either kind of context
\* manager, each registered with enter true or false.
MaxAgetCalls == 2
AgetTypes == {"A", "B"}
AgetFactories ==
    {"int_factory", "async_int_factory", "str_gen_factory",
     "async_str_gen_factory", "async_cm_factory", "async_acm_factory"}

NextAget ==
    \/ \E t \in AgetTypes, f \in AgetFactories, enter \in BOOLEAN :
          /\ MayRegisterEnter(App, t)
          /\ Registry_register_factory(t, f, enter, None, None)
    \/ \E t \in AgetTypes :
          ncalls < MaxAgetCalls /\ Container_aget("c1", <<t>>)
    \/ \E t \in AgetTypes :
          ncalls < MaxAgetCalls /\ Container_get("c1", <<t>>)
    \/ Container_aclose("c1")

SpecAget == Init /\ [][NextAget]_vars

\* Factories of every parameter list, resolved by two containers.
MaxSigCalls == 2
SigTypes == {"A", "B"}
SigHooks == {None, "close"}

NextSig ==
    \/ \E t \in SigTypes, f \in SigFactories \cup {"int_factory"},
          oc \in SigHooks :
          /\ MayRegisterEnter(App, t)
          /\ Registry_register_factory(t, f, TRUE, None, oc)
    \/ \E c \in Containers, t \in SigTypes :
          ncalls < MaxSigCalls /\ Container_get(c, <<t>>)
    \/ \E c \in Containers, t \in SigTypes :
          ncalls < MaxSigCalls /\ Container_aget(c, <<t>>)
    \/ \E c \in Containers : Container_close(c)

SpecSig == Init /\ [][NextSig]_vars

\* get and aget for one, two or three service types at once, repeats
\* included, over sync and async factories.
MaxMultiCalls == 3
MultiTypes == {"A", "B", "C"}
MultiFactories == {"int_factory", "str_gen_factory", "async_int_factory"}
MultiArgs ==
    {<<t>> : t \in MultiTypes}
       \cup {<<t, u>> : t \in MultiTypes, u \in MultiTypes}
       \cup {<<"A", "B", "C">>, <<"C", "A", "B">>}

NextMulti ==
    \/ \E t \in MultiTypes, f \in MultiFactories :
          MayRegister(t, f) /\ Registry_register_factory(t, f, TRUE, None, None)
    \/ \E a \in MultiArgs :
          /\ ncalls + misses("c1", a) <= MaxMultiCalls
          /\ Container_get("c1", a)
    \/ \E a \in MultiArgs :
          /\ ncalls + misses("c1", a) <= MaxMultiCalls
          /\ Container_aget("c1", a)
    \/ Container_close("c1")

SpecMulti == Init /\ [][NextMulti]_vars

\* Factories whose service is None, next to one whose service is not.
MaxNoneCalls == 2
NoneTypes == {"A", "B"}
NoneFactories == {"none_factory", "none_gen_factory", "async_none_factory"}

NextNone ==
    \/ \E t \in NoneTypes, f \in NoneFactories \cup {"int_factory"} :
          /\ MayRegisterEnter(App, t)
          /\ Registry_register_factory(t, f, TRUE, None, None)
    \/ \E t \in NoneTypes :
          /\ ncalls + misses("c1", <<t>>) <= MaxNoneCalls
          /\ Container_get("c1", <<t>>)
    \/ \E t \in NoneTypes :
          /\ ncalls + misses("c1", <<t>>) <= MaxNoneCalls
          /\ Container_aget("c1", <<t>>)
    \/ Container_close("c1")
    \/ Container_aclose("c1")

SpecNone == Init /\ [][NextNone]_vars

\* svcs.flask in one application context: services are registered and
\* overwritten, resolved through the container on g, and the context is
\* torn down and used again.
MaxFlaskCalls == 3
FlaskTypes == {"A", "B"}
FlaskFactories == {"int_factory", "str_gen_factory"}

NextFlask ==
    \/ \E t \in FlaskTypes, f \in FlaskFactories :
          MayRegisterEnter(App, t)
             /\ Registry_register_factory(t, f, TRUE, None, None)
    \/ \E t \in FlaskTypes :
          /\ flask_g # None
          /\ MayRegisterEnter(flask_g, t)
          /\ Container_register_local_value(flask_g, t, "lambda_value", FALSE,
                                            None, None)
    \/ Flask_svcs_from
    \/ \E t \in FlaskTypes :
          ncalls < MaxFlaskCalls /\ Flask_get(<<t>>)
    \/ \E t \in FlaskTypes, f \in FlaskFactories :
          ncalls < MaxFlaskCalls
             /\ Flask_overwrite_factory(t, f, TRUE, None, None)
    \/ \E t \in FlaskTypes :
          ncalls < MaxFlaskCalls
             /\ Flask_overwrite_value(t, "lambda_value", TRUE, None, None)
    \/ Flask_teardown

SpecFlask == Init /\ [][NextFlask]_vars

\* Two requests served concurrently by the async adapters.
MaxRequestCalls == 3
RequestTypes == {"A", "B"}
RequestFactories == {"str_gen_factory", "async_str_gen_factory"}

NextRequests ==
    \/ \E t \in RequestTypes, f \in RequestFactories :
          MayRegisterEnter(App, t)
             /\ Registry_register_factory(t, f, TRUE, None, None)
    \/ \E r \in Requests, scope \in Scopes : svcs_middleware_enter(r, scope)
    \/ \E r \in Requests, t \in RequestTypes :
          ncalls < MaxRequestCalls /\ handler_aget(r, <<t>>)
    \/ \E r \in Requests, e \in BodyErrors : svcs_middleware_exit(r, e)

SpecRequests == Init /\ [][NextRequests]_vars

\* One container with a local registry that has shutdown hooks, synchronous
\* and asynchronous, next to resources on its release stack.
MaxLocalCloseCalls == 2
LocalCloseTypes == {"A", "B"}
LocalCloseFactories == {"str_gen_factory", "async_str_gen_factory"}
LocalCloseHooks == {None, "close", "aclose"}

NextLocalClose ==
    \/ \E t \in LocalCloseTypes :
          /\ MayRegisterEnter(App, t)
          /\ Registry_register_factory(t, "str_gen_factory", TRUE, None, None)
    \/ \E t \in LocalCloseTypes, f \in LocalCloseFactories,
          oc \in LocalCloseHooks :
          /\ MayRegisterEnter("c1", t)
          /\ Container_register_local_factory("c1", t, f, TRUE, None, oc)
    \/ \E t \in LocalCloseTypes, oc \in LocalCloseHooks :
          /\ MayRegisterEnter("c1", t)
          /\ Container_register_local_value("c1", t, "lambda_value", FALSE,
                                            None, oc)
    \/ \E t \in LocalCloseTypes :
          ncalls < MaxLocalCloseCalls /\ Container_get("c1", <<t>>)
    \/ \E t \in LocalCloseTypes :
          ncalls < MaxLocalCloseCalls /\ Container_aget("c1", <<t>>)
    \/ Container_close("c1")
    \/ Container_aclose("c1")

SpecLocalClose == Init /\ [][NextLocalClose]_vars

\* An application run under the lifespan wrapper, started and shut down any
\* number of times: services are registered with shutdown hooks of every kind
\* before and during the run, and a container resolves them.
MaxLifespanCalls == 1
LifespanTypes == {"A", "B"}
LifespanHooks == {None, "close", "boom_close", "aclose"}
LifespanStates ==
    {YieldsNone, YieldsDict({}), YieldsDict({<<"db", "pool">>}),
     YieldsDict({<<"db", "pool">>, <<KEY_REGISTRY, "mine">>})}

NextLifespan ==
    \/ \E t \in LifespanTypes, oc \in LifespanHooks :
          /\ Unregistered(App, t)
          /\ Registry_register_factory(t, "str_gen_factory", TRUE, None, oc)
    \/ \E state \in LifespanStates, exc \in BodyErrors :
          lifespan__call__enter(state, exc)
    \/ \E exc \in BodyErrors : lifespan__call__exit(exc)
    \/ \E t \in LifespanTypes :
          /\ lifespan.phase = "running"
          /\ ncalls < MaxLifespanCalls
          /\ Container_get("c1", <<t>>)

SpecLifespan == Init /\ [][NextLifespan]_vars

\* Two Pyramid requests passing through the tween, their views resolving
\* services or not touching the container at all.
MaxPyramidCalls == 3
PyramidTypes == {"A", "B"}
PyramidFactories ==
    {"int_factory", "str_gen_factory", "boom_gen_factory", "async_int_factory"}

NextPyramid ==
    \/ \E t \in PyramidTypes, f \in PyramidFactories :
          MayRegisterEnter(App, t)
             /\ Registry_register_factory(t, f, TRUE, None, None)
    \/ \E r \in Requests : ServicesTween__call__(r)
    \/ \E r \in Requests : Pyramid_svcs_from(r)
    \/ \E r \in Requests, t \in PyramidTypes :
          ncalls < MaxPyramidCalls /\ Pyramid_get(r, <<t>>)
    \/ \E r \in Requests : request_finished(r)

SpecPyramid == Init /\ [][NextPyramid]_vars

\* Two coroutines sharing one container: each calls aget and may be
\* suspended in it while the other runs; awaits that do not suspend are the
\* aget of one step.
MaxTaskCalls == 3
TaskTypes == {"A", "B"}
TaskFactories ==
    {"int_factory", "str_gen_factory", "async_int_factory",
     "async_str_gen_factory", "async_acm_factory"}

NextAgetTasks ==
    \/ \E t \in TaskTypes, f \in TaskFactories :
          /\ MayRegisterEnter(App, t)
          /\ Registry_register_factory(t, f, TRUE, None, None)
    \/ \E k \in Tasks, t \in TaskTypes :
          ncalls < MaxTaskCalls /\ aget_start(k, "c1", <<t>>)
    \/ \E k \in Tasks : aget_resume(k)
    \/ \E t \in TaskTypes :
          ncalls < MaxTaskCalls /\ Container_aget("c1", <<t>>)

SpecAgetTasks == Init /\ [][NextAgetTasks]_vars

\* Service A depends on service B: the factory of A takes the container and
\* acquires B from it. Factories of every shape for A, synchronous and
\* asynchronous resources for B, or no registration for B at all.
MaxDepCalls == 3
DepTypes == {"A", "B"}
DependencyFactories ==
    {"str_gen_factory", "async_str_gen_factory", "int_factory"}

NextDeps ==
    \/ \E f \in DepFactories \cup {"str_gen_factory"} :
          /\ MayRegisterEnter(App, "A")
          /\ Registry_register_factory("A", f, TRUE, None, None)
    \/ \E f \in DependencyFactories :
          /\ MayRegisterEnter(App, "B")
          /\ Registry_register_factory("B", f, TRUE, None, None)
    \/ \E t \in DepTypes :
          ncalls + 1 < MaxDepCalls /\ Container_get("c1", <<t>>)
    \/ \E t \in DepTypes :
          ncalls + 1 < MaxDepCalls /\ Container_aget("c1", <<t>>)
    \/ Container_close("c1")
    \/ Container_aclose("c1")

SpecDeps == Init /\ [][NextDeps]_vars

\* Resources that cannot be entered: generator factories that raise before
\* their yield, next to one that does not.
MaxBoomCalls == 3
BoomTypes == {"A", "B"}

NextBoom ==
    \/ \E t \in BoomTypes, f \in EnterBoomFactories \cup {"str_gen_factory"} :
          /\ MayRegisterEnter(App, t)
          /\ Registry_register_factory(t, f, TRUE, None, None)
    \/ \E t \in BoomTypes :
          ncalls < MaxBoomCalls /\ Container_get("c1", <<t>>)
    \/ \E t \in BoomTypes :
          ncalls < MaxBoomCalls /\ Container_aget("c1", <<t>>)
    \/ Container_close("c1")
    \/ Container_aclose("c1")

SpecBoom == Init /\ [][NextBoom]_vars

\* Coroutines sharing one container: one is suspended in aclose while
\* others acquire services from the container or close it.
MaxCloseTaskCalls == 3
CloseTaskTypes == {"A", "B"}
CloseTaskFactories ==
    {"str_gen_factory", "async_str_gen_factory", "async_boom_gen_factory"}

NextCloseTasks ==
    \/ \E t \in CloseTaskTypes, f \in CloseTaskFactories :
          /\ MayRegisterEnter(App, t)
          /\ Registry_register_factory(t, f, TRUE, None, None)
    \/ \E t \in CloseTaskTypes :
          ncalls < MaxCloseTaskCalls /\ Container_aget("c1", <<t>>)
    \/ \E k \in Tasks : aclose_start(k, "c1")
    \/ \E k \in Tasks : aclose_resume(k)
    \/ Container_aclose("c1")

SpecCloseTasks == Init /\ [][NextCloseTasks]_vars

\* =============================================================== the claims
Closing == {"close", "aclose", "__exit__", "__aexit__"}
RegistryClosing == {"Registry.close", "Registry.aclose"}

\* The operation l is get(t) or aget(t) on container c.
IsCall(l, c, t) == l.op \in {"get", "aget"} /\ l.c = c /\ l.arg = <<t>>

\* The registration get/aget on c reach for t: the local one shadows the
\* shared one.
Effective(c, t) ==
    IF lazy_local_registry[c] /\ services[c][t] # NotRegistered
    THEN services[c][t] ELSE services[App][t]

\* (name, id) of the events of the given kinds that concern release-stack
\* entries, and (name, id) of the entries of a release stack.
EntryEvents(evs, kinds) ==
    LET es == SelectSeq(evs, LAMBDA e : e.oc = "" /\ e.ev \in kinds)
    IN [i \in 1..Len(es) |-> <<es[i].name, es[i].id>>]
Entries(stack) == [i \in 1..Len(stack) |-> <<stack[i].name, stack[i].cm.id>>]

\* (name, hook) of the events of the given kinds that concern shutdown hooks,
\* and (name, hook) of a hook list.
HookEvents(evs, kinds) ==
    LET es == SelectSeq(evs, LAMBDA e : e.oc # "" /\ e.ev \in kinds)
    IN [i \in 1..Len(es) |-> <<es[i].name, es[i].oc>>]
HookList(hooks) == [i \in 1..Len(hooks) |-> <<hooks[i].name, hooks[i].oc>>]

Count(seq, x) == Cardinality({i \in 1..Len(seq) : seq[i] = x})
IsReverse(a, b) ==
    /\ Len(a) = Len(b)
    /\ \A i \in 1..Len(a) : a[i] = b[Len(b) + 1 - i]
IsPrefix(a, b) ==
    /\ Len(a) <= Len(b)
    /\ \A i \in 1..Len(a) : a[i] = b[i]

\* C1, as amended: between two closes of a container, a get/aget for a cached
\* type invokes no factory and returns the cached instance; a call that
\* misses the cache and returns has invoked the factory exactly once and has
\* cached what it returns; a call that raises caches nothing; and a cached
\* instance is replaced by nothing but a close. So every call that returns,
\* returns the same instance, and the calls that return invoke the factory
\* once between them.
C1_CacheIdentity ==
    [][\A c \in Containers, t \in Types :
         /\ (instantiated[c][t] # NOTHING /\ last'.op \notin Closing)
               => instantiated'[c][t] = instantiated[c][t]
         /\ IsCall(last', c, t) =>
              /\ instantiated[c][t] # NOTHING =>
                    /\ last'.err = ""
                    /\ last'.rv = <<instantiated[c][t]>>
                    /\ factory_calls' = factory_calls
              /\ (instantiated[c][t] = NOTHING /\ last'.err = "") =>
                    /\ factory_calls'[t] = factory_calls[t] + 1
                    /\ last'.rv = <<instantiated'[c][t]>>
                    /\ instantiated'[c][t] # NOTHING
              /\ last'.err # "" => instantiated'[c][t] = NOTHING
      ]_vars

\* C1, witness: a get returned an instance only aget can have built, so it
\* is a later call that was served from the cache, and the factory ran once.
C1_Witness ==
    /\ IsCall(last, "c1", "A")
    /\ last.op = "get"
    /\ last.err = ""
    /\ last.rv = <<instantiated["c1"]["A"]>>
    /\ last.rv[1].f = "async_str_gen_factory"
    /\ factory_calls["A"] = 1
    /\ Len(on_close["c1"]) = 1

\* C1, as claimed: of two calls for a registered type on one container in
\* direct succession, both return the same instance and the second one does
\* not invoke the factory again.
C1_Original ==
    [][\A c \in Containers, t \in Types :
         (/\ IsCall(last, c, t)
          /\ last.err # "ServiceNotFoundError"
          /\ IsCall(last', c, t))
         => /\ last.err = ""
            /\ last'.err = ""
            /\ last'.rv = last.rv
            /\ factory_calls'[t] = factory_calls[t]
      ]_vars

\* C2, as amended: get/aget for a type that is not cached in the container
\* and registered neither in its local registry nor in the shared registry
\* raises ServiceNotFoundError with the type as args[0] and leaves the cache
\* and the release stack as they were.
C2_NotFound ==
    [][\A c \in Containers, t \in Types :
         (/\ IsCall(last', c, t)
          /\ instantiated[c][t] = NOTHING
          /\ Effective(c, t) = NotRegistered)
         => /\ last'.err = "ServiceNotFoundError"
            /\ last'.errarg = t
            /\ instantiated' = instantiated
            /\ on_close' = on_close
      ]_vars

\* C2, witness: a get for an unregistered type raised, on a container that
\* holds a cached instance and a pending cleanup of another type.
C2_Witness ==
    /\ IsCall(last, "c1", "B")
    /\ last.err = "ServiceNotFoundError"
    /\ last.errarg = "B"
    /\ services[App]["A"] # NotRegistered
    /\ instantiated["c1"]["A"] # NOTHING
    /\ Len(on_close["c1"]) = 1

\* C2, as claimed: get/aget for a type registered in neither registry raises
\* ServiceNotFoundError with the type as args[0] and changes neither the
\* cache nor the release stack.
C2_Original ==
    [][\A c \in Containers, t \in Types :
         (IsCall(last', c, t) /\ Effective(c, t) = NotRegistered)
         => /\ last'.err = "ServiceNotFoundError"
            /\ last'.errarg = t
            /\ instantiated' = instantiated
            /\ on_close' = on_close
      ]_vars

\* C3: close() and aclose() walk the release stack in strict reverse order
\* of acquisition. get/aget append what they acquire at the end of the
\* stack, and a closing operation visits the entries last to first, so the
\* cleanups that run (a synchronous close skips the asynchronous ones) run
\* in the reverse of the order of acquisition: A, B, C are released C, B, A.
C3_LIFO ==
    [][/\ last'.op \in {"get", "aget"} =>
            IsPrefix(on_close[last'.c], on_close'[last'.c])
       /\ last'.op \in Closing =>
            IsReverse(EntryEvents(trace', {"exit", "aexit", "warn"}),
                      Entries(on_close[last'.c]))
      ]_vars

\* C3, witness: a close has released three resources, C first and A last.
C3_Witness ==
    /\ last.op = "close"
    /\ EntryEvents(trace, {"exit"}) = <<<<"C", 1>>, <<"B", 1>>, <<"A", 1>>>>

\* C4: a cleanup that raises (an Exception, which is what the loops catch)
\* does not end the closing operation and does not stop the other cleanups.
\* Container close/aclose return normally, every entry of the release stack
\* is visited exactly once (exited, or skipped by a synchronous close), and
\* there is one warning-level log record, tagged with the entry's name, per
\* exit that raised; Registry close/aclose likewise for the shutdown hooks.
C4_CleanupIsolation ==
    [][/\ last'.op \in {"close", "aclose"} =>
            LET stack == on_close[last'.c]
                seen == EntryEvents(trace', {"exit", "aexit", "warn"})
                ran == EntryEvents(trace', {"exit", "aexit"})
                logged == EntryEvents(trace', {"log"})
            IN /\ last'.err = ""
               /\ Len(seen) = Len(stack)
               /\ \A i \in 1..Len(stack) :
                    LET k == <<stack[i].name, stack[i].cm.id>> IN
                    /\ Count(seen, k) = 1
                    /\ Count(logged, k) =
                          IF ExitRaises(stack[i].cm) THEN Count(ran, k) ELSE 0
               /\ Len(logged) <= Len(ran)
       /\ last'.op \in RegistryClosing =>
            LET hooks == reg_on_close[App]
                seen == HookEvents(trace', {"call", "await", "warn"})
                ran == HookEvents(trace', {"call", "await"})
                logged == HookEvents(trace', {"log"})
            IN /\ last'.err = ""
               /\ Len(seen) = Len(hooks)
               /\ \A i \in 1..Len(hooks) :
                    LET k == <<hooks[i].name, hooks[i].oc>> IN
                    /\ Count(seen, k) = Count(HookList(hooks), k)
                    /\ Count(logged, k) =
                          IF HookRaises(hooks[i].oc) THEN Count(ran, k) ELSE 0
               /\ Len(logged) <= Len(ran)
      ]_vars

\* C4, witness: a close in which two cleanups raised and were logged, and a
\* third cleanup ran after them.
C4_Witness ==
    /\ last.op = "close"
    /\ last.err = ""
    /\ Len(EntryEvents(trace, {"log"})) = 2
    /\ Len(EntryEvents(trace, {"exit"})) = 3
    /\ trace[Len(trace)].ev = "exit"

\* C5: once a Container close/aclose (or leaving it as a scope) has
\* returned, its release stack and its cache are empty, and once a Registry
\* close/aclose has returned, its service map and hook list are empty,
\* whatever the cleanups did.
C5_Drained ==
    /\ last.op \in Closing =>
          /\ on_close[last.c] = <<>>
          /\ \A t \in Types : instantiated[last.c][t] = NOTHING
    /\ last.op \in RegistryClosing =>
          /\ \A t \in Types : services[App][t] = NotRegistered
          /\ reg_on_close[App] = <<>>

\* C5, witness: a close in which one cleanup succeeded, one raised and one
\* was skipped.
C5_Witness ==
    /\ last.op = "close"
    /\ Len(EntryEvents(trace, {"warn"})) = 1
    /\ Len(EntryEvents(trace, {"log"})) = 1
    /\ Len(EntryEvents(trace, {"exit"})) = 2

\* C6: a synchronous get that resolves a type from a registration whose
\* factory returns a coroutine or an async context manager raises TypeError
\* and leaves the cache and the release stack as they were; the aget for the
\* same type that follows returns what the factory produced (awaited or
\* entered) and caches it.
C6_SyncGetOnAsync ==
    [][\A c \in Containers, t \in Types :
         LET rs == Effective(c, t) IN
         /\ (/\ IsCall(last', c, t) /\ last'.op = "get"
             /\ instantiated[c][t] = NOTHING
             /\ rs # NotRegistered
             /\ ResultKind(rs.factory) \in {"coro", "acm"})
            => /\ last'.err = "TypeError"
               /\ instantiated' = instantiated
               /\ on_close' = on_close
         /\ (/\ IsCall(last, c, t) /\ last.op = "get"
             /\ last.err = "TypeError"
             /\ IsCall(last', c, t) /\ last'.op = "aget")
            => /\ last'.err = ""
               /\ Len(last'.rv) = 1
               /\ last'.rv[1].f = rs.factory
               /\ last'.rv[1].id = factory_calls'[t]
               /\ last'.rv[1].kind =
                     IF ResultKind(rs.factory) = "acm" /\ ~rs.enter
                     THEN "acm" ELSE "plain"
               /\ instantiated'[c][t] = last'.rv[1]
      ]_vars

\* C6, witness: an aget has returned the service of an async generator
\* factory whose first invocation, by get, was thrown away.
C6_Witness ==
    /\ IsCall(last, "c1", "A")
    /\ last.op = "aget"
    /\ last.err = ""
    /\ last.rv[1].f = "async_str_gen_factory"
    /\ factory_calls["A"] = 2
    /\ Len(on_close["c1"]) = 1

\* C7: a container is reusable after closing: the get/aget for a registered
\* type that directly follows a close invokes the factory once more, and
\* what it returns is what that invocation produced, cached under the type.
C7_ReuseAfterClose ==
    [][\A c \in Containers, t \in Types :
         (/\ last.op \in Closing /\ last.c = c
          /\ IsCall(last', c, t)
          /\ Effective(c, t) # NotRegistered)
         => /\ factory_calls'[t] = factory_calls[t] + 1
            /\ last'.err = "" =>
                 /\ last'.rv = <<instantiated'[c][t]>>
                 /\ last'.rv[1].f = Effective(c, t).factory
                 /\ last'.rv[1].f # "lambda_value" =>
                       last'.rv[1].id = factory_calls'[t]
      ]_vars

\* C7, witness: resolve, close, resolve: the factory has counted two calls
\* and the container caches the second instance.
C7_Witness ==
    /\ IsCall(last, "c1", "A")
    /\ last.err = ""
    /\ factory_calls["A"] = 2
    /\ instantiated["c1"]["A"].f = "str_gen_factory"
    /\ instantiated["c1"]["A"].id = 2
    /\ Entries(on_close["c1"]) = <<<<"A", 2>>>>

\* C9: Registry close/aclose visit the shutdown hooks in reverse order of
\* registration: a registration appends its hook at the end of the list and
\* closing walks the list last to first, so hooks registered for A then B
\* are invoked B first, then A.
C9_HookOrder ==
    [][/\ last'.op = "register_factory" =>
            IsPrefix(reg_on_close[App], reg_on_close'[App])
       /\ last'.op \in RegistryClosing =>
            IsReverse(HookEvents(trace', {"call", "await", "warn"}),
                      HookList(reg_on_close[App]))
      ]_vars

\* C9, witness: a close has called the hook of B, then the hook of A.
C9_Witness ==
    /\ last.op = "Registry.close"
    /\ HookEvents(trace, {"call"}) = <<<<"B", "close">>, <<"A", "boom_close">>>>

\* C10, as amended: leaving a container scope releases what was acquired in
\* it as close()/aclose() do: an async scope exits every entry exactly once,
\* a synchronous scope exits every synchronous entry exactly once and skips
\* the asynchronous ones with a warning. This is so when the scope is left
\* normally and when it is left through an error; in the error case every
\* exit is handed no exception and the error goes on propagating.
C10_ScopeExit ==
    [][last'.op \in {"__exit__", "__aexit__"} =>
         LET stack == on_close[last'.c]
             ran == EntryEvents(trace', {"exit", "aexit"})
             skipped == EntryEvents(trace', {"warn"})
         IN /\ \A i \in 1..Len(stack) :
                 LET k == <<stack[i].name, stack[i].cm.id>>
                     async == isinstance_AbstractAsyncContextManager(stack[i].cm)
                 IN IF last'.op = "__exit__" /\ async
                    THEN Count(ran, k) = 0 /\ Count(skipped, k) = 1
                    ELSE Count(ran, k) = 1 /\ Count(skipped, k) = 0
            /\ Len(ran) + Len(skipped) = Len(stack)
            /\ \A i \in 1..Len(trace') : trace'[i].exc = None
            /\ last'.err = IF last'.arg[1] = None THEN "" ELSE last'.arg[1]
      ]_vars

\* C10, witness: a scope was left through ValueError, the cleanup of the
\* resource acquired in it has run, and the error propagates.
C10_Witness ==
    /\ last.op = "__exit__"
    /\ last.arg = <<"ValueError">>
    /\ last.err = "ValueError"
    /\ EntryEvents(trace, {"exit"}) = <<<<"A", 1>>>>

\* C10, as claimed: leaving a container scope, normally or through an error,
\* runs the cleanup of every resource acquired in it exactly once, hands it
\* no exception, and lets the error propagate.
C10_Original ==
    [][last'.op \in {"__exit__", "__aexit__"} =>
         LET stack == on_close[last'.c]
             ran == EntryEvents(trace', {"exit", "aexit"})
         IN /\ \A i \in 1..Len(stack) :
                 Count(ran, <<stack[i].name, stack[i].cm.id>>) = 1
            /\ \A i \in 1..Len(trace') : trace'[i].exc = None
            /\ last'.err = IF last'.arg[1] = None THEN "" ELSE last'.arg[1]
      ]_vars

\* C8: a local registration shadows the shared one, per container. A get or
\* aget that misses the cache of container c and returns, returns what the
\* factory of c's local registration for the type produced when c has one,
\* and what the shared registration's factory produced when c has none; it
\* is cached in c under the requested type, and the other container's cache
\* is left alone.
C8_LocalShadowing ==
    [][\A c \in Containers, t \in Types :
         (/\ IsCall(last', c, t)
          /\ last'.err = ""
          /\ instantiated[c][t] = NOTHING)
         => LET local == lazy_local_registry[c]
                            /\ services[c][t] # NotRegistered
                rs == IF local THEN services[c][t] ELSE services[App][t]
            IN /\ rs # NotRegistered
               /\ last'.rv[1].f = rs.factory
               /\ instantiated'[c][t] = last'.rv[1]
               /\ \A d \in Containers \ {c} :
                     instantiated'[d] = instantiated[d]
      ]_vars

\* C8, witness: the shared registry and c1 both register A; c1 has resolved
\* its local value, its sibling c2 the factory-made shared one.
C8_Witness ==
    /\ lazy_local_registry["c1"] /\ ~lazy_local_registry["c2"]
    /\ services["c1"]["A"].factory = "lambda_value"
    /\ services[App]["A"].factory = "int_factory"
    /\ instantiated["c1"]["A"].f = "lambda_value"
    /\ instantiated["c2"]["A"].f = "int_factory"
    /\ IsCall(last, "c2", "A")

\* C11: a synchronous close() runs no async cleanup. Every entry of the
\* release stack that is an async context manager gets one warning that
\* names it and no exit of either kind, every other entry is exited once,
\* and the whole stack is gone afterwards, so that a later aclose() finds
\* nothing to retry.
C11_CloseSkipsAsync ==
    [][last'.op = "close" =>
         LET stack == on_close[last'.c] IN
         /\ \A i \in 1..Len(stack) :
              LET k == <<stack[i].name, stack[i].cm.id>> IN
              IF isinstance_AbstractAsyncContextManager(stack[i].cm)
              THEN /\ Count(EntryEvents(trace', {"warn"}), k) = 1
                   /\ Count(EntryEvents(trace', {"exit", "aexit", "log"}), k) = 0
              ELSE /\ Count(EntryEvents(trace', {"warn", "aexit"}), k) = 0
                   /\ Count(EntryEvents(trace', {"exit"}), k) = 1
         /\ EntryEvents(trace', {"aexit"}) = <<>>
         /\ on_close'[last'.c] = <<>>
      ]_vars

\* C11, witness: a close that skipped the async cleanup of C, acquired
\* between two synchronous resources that it exited.
C11_Witness ==
    /\ last.op = "close"
    /\ EntryEvents(trace, {"exit", "warn"})
          = <<<<"B", 1>>, <<"C", 1>>, <<"A", 1>>>>
    /\ EntryEvents(trace, {"warn"}) = <<<<"C", 1>>>>
    /\ on_close["c1"] = <<>>

\* C12, as claimed: aclose() releases every pending entry, through its
\* asynchronous exit whenever the resource supports asynchronous exit and
\* through its synchronous exit otherwise; a resource that aget entered
\* asynchronously is released through its asynchronous exit.
C12_Original ==
    [][last'.op = "aclose" =>
         LET stack == on_close[last'.c] IN
         \A i \in 1..Len(stack) :
            LET k == <<stack[i].name, stack[i].cm.id>>
                async ==
                   \/ isinstance_AbstractAsyncContextManager(stack[i].cm)
                   \/ stack[i].cm.entered = "__aenter__"
            IN /\ Count(EntryEvents(trace', {"aexit"}), k)
                     = IF async THEN 1 ELSE 0
               /\ Count(EntryEvents(trace', {"exit"}), k)
                     = IF async THEN 0 ELSE 1
      ]_vars

\* C12, what aclose() does: every pending entry is released exactly once,
\* through its synchronous exit when the resource supports the synchronous
\* protocol, whichever way it was entered, and through its asynchronous
\* exit only when it does not.
C12_AcloseBranch ==
    [][last'.op = "aclose" =>
         LET stack == on_close[last'.c] IN
         \A i \in 1..Len(stack) :
            LET k == <<stack[i].name, stack[i].cm.id>>
                sync == isinstance_AbstractContextManager(stack[i].cm)
            IN /\ Count(EntryEvents(trace', {"exit"}), k)
                     = IF sync THEN 1 ELSE 0
               /\ Count(EntryEvents(trace', {"aexit"}), k)
                     = IF sync THEN 0 ELSE 1
      ]_vars

\* C12, witness: an aclose() has released, through its synchronous exit, a
\* resource that aget had entered through __aenter__.
C12_Witness ==
    /\ last.op = "aclose"
    /\ EntryEvents(trace, {"exit"}) = <<<<"A", 1>>>>
    /\ EntryEvents(trace, {"aexit"}) = <<>>
    /\ services[App]["A"].factory = "dual_cm_factory"
    /\ factory_calls["A"] = 1

\* C13: a synchronous Registry.close() skips the asynchronous hooks. Every
\* hook that is a coroutine function or an awaitable gets one warning that
\* names its registration and is neither called nor awaited, every other
\* hook is called once, and the service map and the hook list are empty
\* afterwards.
C13_RegistryCloseSkipsAsync ==
    [][last'.op = "Registry.close" =>
         LET hooks == reg_on_close[App] IN
         /\ \A i \in 1..Len(hooks) :
              LET k == <<hooks[i].name, hooks[i].oc>>
                  n == Count(HookList(hooks), k)
              IN IF iscoroutinefunction(hooks[i].oc)
                    \/ isawaitable_hook(hooks[i].oc)
                 THEN /\ Count(HookEvents(trace', {"warn"}), k) = n
                      /\ Count(HookEvents(trace', {"call", "await", "log"}), k)
                            = 0
                 ELSE /\ Count(HookEvents(trace', {"call"}), k) = n
                      /\ Count(HookEvents(trace', {"warn", "await"}), k) = 0
         /\ HookEvents(trace', {"await"}) = <<>>
         /\ \A t \in Types : services'[App][t] = NotRegistered
         /\ reg_on_close'[App] = <<>>
      ]_vars

\* C13, witness: a close has skipped an awaitable hook and called the
\* synchronous hook registered before it.
C13_Witness ==
    /\ last.op = "Registry.close"
    /\ HookEvents(trace, {"warn"}) = <<<<"B", "aclose_awaitable">>>>
    /\ HookEvents(trace, {"call"}) = <<<<"A", "close">>>>
    /\ trace[1].ev = "warn"
    /\ reg_on_close[App] = <<>>

HookPosition(evs, k) ==
    LET hs == HookEvents(evs, {"call", "await", "warn"})
    IN CHOOSE i \in 1..Len(hs) : hs[i] = k /\ \A j \in 1..(i - 1) : hs[j] # k

\* C15, as amended: when a type is registered twice with hooks h1 then h2
\* (two different hooks, each on the list once), closing the registry
\* reaches the newer hook first: h2 is visited before h1, the reverse of the
\* order of registration.
C15_NewerHookFirst ==
    [][last'.op \in RegistryClosing =>
         LET hooks == reg_on_close[App] IN
         \A i, j \in 1..Len(hooks) :
            (/\ i < j
             /\ hooks[i].name = hooks[j].name
             /\ Count(HookList(hooks), HookList(hooks)[i]) = 1
             /\ Count(HookList(hooks), HookList(hooks)[j]) = 1)
            => HookPosition(trace', <<hooks[j].name, hooks[j].oc>>)
                  < HookPosition(trace', <<hooks[i].name, hooks[i].oc>>)
      ]_vars

\* C15, witness: A was registered with hook close, then again with hook
\* aclose; an aclose has awaited aclose and then called close.
C15_Witness ==
    /\ last.op = "Registry.aclose"
    /\ HookEvents(trace, {"call", "await"})
          = <<<<"A", "aclose">>, <<"A", "close">>>>

\* C15, as claimed: the hooks of a type registered twice fire in the order
\* of registration, h1 before h2.
C15_Original ==
    [][last'.op \in RegistryClosing =>
         LET hooks == reg_on_close[App] IN
         \A i, j \in 1..Len(hooks) :
            (/\ i < j
             /\ hooks[i].name = hooks[j].name
             /\ Count(HookList(hooks), HookList(hooks)[i]) = 1
             /\ Count(HookList(hooks), HookList(hooks)[j]) = 1)
            => HookPosition(trace', <<hooks[i].name, hooks[i].oc>>)
                  < HookPosition(trace', <<hooks[j].name, hooks[j].oc>>)
      ]_vars

\* The types whose registration r[t] carries a ping.
WithPing(r) == {t \in Types : r[t] # NotRegistered /\ r[t].ping # None}

\* The ServicePings in sps are one per type of ts, each with the ping of
\* the registration r has for its type, bound to container c.
OnePingPer(sps, ts, r, c) ==
    /\ Len(sps) = Cardinality(ts)
    /\ \A t \in ts :
          \E i \in 1..Len(sps) :
             /\ sps[i].svc_type = t
             /\ sps[i].name = r[t].name
             /\ sps[i].ping = r[t].ping
             /\ sps[i].container = c

\* C16, as claimed: get_pings() returns one ServicePing per type whose
\* effective registration (the local one when the container has one for the
\* type, the shared one otherwise) has a ping.
C16_Original ==
    [][last'.op = "get_pings" =>
         LET c == last'.c
             r == [t \in Types |-> Effective(c, t)]
         IN OnePingPer(pings_held', WithPing(r), r, c)
      ]_vars

\* C16, what get_pings() does: it returns one ServicePing per type whose
\* registration in the shared registry has a ping, whatever the container
\* has registered locally.
C16_SharedPingsOnly ==
    [][last'.op = "get_pings" =>
         OnePingPer(pings_held', WithPing(services[App]), services[App],
                    last'.c)
      ]_vars

\* C16, witness: A is registered with a ping in the container's local
\* registry only, and get_pings() has returned nothing.
C16_Witness ==
    /\ last.op = "get_pings"
    /\ lazy_local_registry["c1"]
    /\ services["c1"]["A"].ping = "ping"
    /\ services[App]["A"] = NotRegistered
    /\ pings_held = <<>>

\* C17: get_pings() instantiates nothing: it invokes no factory and leaves
\* the cache and the release stack as they are; factories are invoked only
\* by get/aget and by ping()/aping() on a ServicePing.
C17_GetPingsInstantiatesNothing ==
    [][/\ last'.op = "get_pings" =>
            /\ factory_calls' = factory_calls
            /\ instantiated' = instantiated
            /\ on_close' = on_close
            /\ trace' = <<>>
       /\ factory_calls' # factory_calls =>
            last'.op \in {"get", "aget", "ping", "aping"}
      ]_vars

\* C17, witness: get_pings() has returned two ServicePings and no factory
\* has been invoked.
C17_Witness ==
    /\ last.op = "get_pings"
    /\ Len(pings_held) = 2
    /\ ncalls = 0
    /\ instantiated["c1"] = NoInstances
    /\ on_close["c1"] = <<>>

\* (name, id of the instance) of the calls of ping callables in a trace.
PingEvents(evs) ==
    LET es == SelectSeq(evs, LAMBDA e :
                 e.ev \in {"ping", "ping_unawaited", "aping"})
    IN [i \in 1..Len(es) |-> <<es[i].name, es[i].id>>]

\* C18: ping() acquires the service as get does and calls the ping callable
\* once with it. With the type cached nothing is invoked or changed and the
\* cached instance is pinged; otherwise the factory of the effective
\* registration is invoked once, its result cached and, when it is a context
\* manager, pushed on the release stack of the owning container, and that
\* instance is pinged; when get raises, nothing is pinged. ping() runs no
\* cleanup; the close of the owning container exits what ping() pushed.
C18_PingAcquiresLikeGet ==
    [][/\ last'.op = "ping" =>
            LET c == last'.c
                t == last'.arg[1]
                rs == Effective(c, t)
                kind == ResultKind(rs.factory)
            IN /\ EntryEvents(trace', {"exit", "aexit", "warn", "log"}) = <<>>
               /\ IF instantiated[c][t] # NOTHING
                  THEN /\ last'.err = ""
                       /\ factory_calls' = factory_calls
                       /\ instantiated' = instantiated
                       /\ on_close' = on_close
                       /\ PingEvents(trace') = <<<<t, instantiated[c][t].id>>>>
                  ELSE IF rs = NotRegistered
                  THEN /\ last'.err = "ServiceNotFoundError"
                       /\ factory_calls' = factory_calls
                       /\ PingEvents(trace') = <<>>
                  ELSE IF kind \in {"coro", "acm", "both"}
                  THEN /\ last'.err = "TypeError"
                       /\ instantiated' = instantiated
                       /\ on_close' = on_close
                       /\ PingEvents(trace') = <<>>
                  ELSE /\ last'.err = ""
                       /\ factory_calls'[t] = factory_calls[t] + 1
                       /\ instantiated'[c][t].f = rs.factory
                       /\ instantiated'[c][t].id = factory_calls'[t]
                       /\ Entries(on_close'[c]) =
                             IF kind = "cm" /\ rs.enter
                             THEN Append(Entries(on_close[c]),
                                         <<t, factory_calls'[t]>>)
                             ELSE Entries(on_close[c])
                       /\ PingEvents(trace') = <<<<t, factory_calls'[t]>>>>
       /\ last'.op = "close" =>
            \A i \in 1..Len(on_close[last'.c]) :
               LET e == on_close[last'.c][i] IN
               ~isinstance_AbstractAsyncContextManager(e.cm) =>
                  Count(EntryEvents(trace', {"exit"}), <<e.name, e.cm.id>>) = 1
      ]_vars

\* C18, witness: ping() has invoked the generator factory of A, pushed its
\* cleanup and pinged the instance; the cleanup has not run.
C18_Witness ==
    /\ last.op = "ping"
    /\ last.err = ""
    /\ PingEvents(trace) = <<<<"A", 1>>>>
    /\ Entries(on_close["c1"]) = <<<<"A", 1>>>>
    /\ instantiated["c1"]["A"].id = 1
    /\ factory_calls["A"] = 1

\* The ServicePing for type t among those held.
HeldPing(t) == CHOOSE sp \in {pings_held[i] : i \in 1..Len(pings_held)} :
                  sp.svc_type = t

C20_EnterFlag ==
    [][/\ (last'.op \in {"get", "aget"} /\ last'.err = "") =>
            LET c == last'.c
                t == last'.arg[1]
                rs == Effective(c, t)
                raw == CallFactory(rs.factory, t, factory_calls'[t])
            IN instantiated[c][t] = NOTHING =>
                 IF rs.enter /\ raw.kind \in {"cm", "acm", "both"}
                 THEN /\ instantiated'[c][t].kind = "plain"
                      /\ instantiated'[c][t].id = raw.id
                      /\ Len(on_close'[c]) = Len(on_close[c]) + 1
                      /\ IsPrefix(on_close[c], on_close'[c])
                      /\ LET e == on_close'[c][Len(on_close'[c])] IN
                         /\ e.name = rs.name
                         /\ e.cm.kind = raw.kind
                         /\ e.cm.id = raw.id
                         /\ e.cm.entered \in {"__enter__", "__aenter__"}
                 ELSE /\ on_close' = on_close
                      /\ instantiated'[c][t].kind
                            = IF raw.kind = "coro" THEN "plain" ELSE raw.kind
                      /\ instantiated'[c][t].id = raw.id
                      /\ instantiated'[c][t].entered = ""
       /\ last'.op \in {"close", "aclose"} =>
            /\ Len(trace') = Len(on_close[last'.c])
            /\ \A t \in Types :
                  LET svc == instantiated[last'.c][t] IN
                  (svc # NOTHING /\ svc.kind # "plain") =>
                     /\ Count(Entries(on_close[last'.c]), <<t, svc.id>>) = 0
                     /\ \A i \in 1..Len(trace') :
                           <<trace'[i].name, trace'[i].id>> # <<t, svc.id>>
       /\ last'.op \in {"register_factory", "register_local_factory"} =>
            LET t == last'.arg[1] IN
            /\ \A f \in EnterFactories :
                  /\ Registry_register_factory_default(t, f) =>
                        services'[App][t].enter
                  /\ Container_register_local_factory_default("c1", t, f) =>
                        services'["c1"][t].enter
            /\ \A v \in EnterValues :
                  /\ Registry_register_value_default(t, v) =>
                        ~services'[App][t].enter
                  /\ Container_register_local_value_default("c1", t, v) =>
                        ~services'["c1"][t].enter
      ]_vars

\* C20, witness: A was registered with its default (enter true) and B with
\* enter false, both with a factory returning a context manager; after both
\* were acquired only A's is on the release stack and B's is cached as the
\* factory returned it, and the close has exited A's alone.
C20_Witness ==
    /\ last.op = "close"
    /\ services[App]["A"].enter
    /\ services[App]["A"].factory = "str_gen_factory"
    /\ ~services[App]["B"].enter
    /\ services[App]["B"].factory = "str_gen_factory"
    /\ factory_calls = [t \in Types |-> IF t \in {"A", "B"} THEN 1 ELSE 0]
    /\ EntryEvents(trace, {"exit"}) = <<<<"A", 1>>>>
    /\ Len(trace) = 1

\* How a factory's scoped resource is entered: "" when what the factory
\* produces (after awaiting it, for an async factory) is no context manager.
ScopedMode(f) ==
    CASE f \in {"str_gen_factory", "async_cm_factory"}        -> "__enter__"
      [] f \in {"async_str_gen_factory", "async_acm_factory"} -> "__aenter__"
      [] OTHER                                                -> ""

\* C21: aget handles every factory shape. On a cache miss the returned value
\* is what is cached. A plain value, and the awaited result of a coroutine,
\* is cached without touching the release stack. A context manager, returned
\* directly or by awaiting the factory, is with enter set entered in its own
\* mode (__enter__ for a sync one, __aenter__ for an async one) and pushed,
\* and the entered value is cached; with enter unset nothing is pushed. A
\* later aclose() exits every entry once, in the mode it was entered in.
C21_AgetShapes ==
    [][/\ (last'.op = "aget" /\ last'.err = "") =>
            LET c == last'.c
                t == last'.arg[1]
                rs == Effective(c, t)
                mode == ScopedMode(rs.factory)
                svc == instantiated'[c][t]
            IN /\ last'.rv = <<svc>>
               /\ instantiated[c][t] = NOTHING =>
                    /\ svc.id = factory_calls'[t]
                    /\ svc.f = rs.factory
                    /\ factory_calls'[t] = factory_calls[t] + 1
                    /\ IF mode = "" \/ ~rs.enter
                       THEN /\ on_close' = on_close
                            /\ svc.kind
                                 = CASE mode = "__enter__"  -> "cm"
                                     [] mode = "__aenter__" -> "acm"
                                     [] OTHER               -> "plain"
                       ELSE /\ svc.kind = "plain"
                            /\ Len(on_close'[c]) = Len(on_close[c]) + 1
                            /\ IsPrefix(on_close[c], on_close'[c])
                            /\ LET e == on_close'[c][Len(on_close'[c])] IN
                               /\ e.name = rs.name
                               /\ e.cm.id = svc.id
                               /\ e.cm.entered = mode
       /\ last'.op = "aclose" =>
            /\ Len(trace') = Len(on_close[last'.c])
            /\ \A i \in 1..Len(on_close[last'.c]) :
                  LET e == on_close[last'.c][i] IN
                  Count(EntryEvents(trace',
                           IF e.cm.entered = "__aenter__"
                           THEN {"aexit"} ELSE {"exit"}),
                        <<e.name, e.cm.id>>) = 1
      ]_vars

\* C21, witness: A's async factory returned an async context manager and B's
\* a sync one; aget entered both and aclose() has exited B's synchronously
\* and then A's asynchronously.
C21_Witness ==
    /\ last.op = "aclose"
    /\ services[App]["A"].factory = "async_acm_factory"
    /\ services[App]["B"].factory = "async_cm_factory"
    /\ services[App]["A"].enter /\ services[App]["B"].enter
    /\ EntryEvents(trace, {"exit", "aexit"}) = <<<<"B", 1>>, <<"A", 1>>>>
    /\ EntryEvents(trace, {"aexit"}) = <<<<"A", 1>>>>

\* The factories with two or more parameters.
ManyParameters == {f \in SigFactories : Len(Parameters(f)) >= 2}

ContainerFactories ==
    {"container_name_factory", "container_annotation_factory",
     "container_str_annotation_factory", "container_and_more_factory"}

\* C23: takes_container is fixed at registration, true exactly for the
\* factories whose first parameter is named svcs_container or annotated as
\* Container, and no get/aget changes a registration. A get/aget that
\* misses the cache calls the factory once, with the resolving container as
\* the only argument when takes_container is set and without arguments
\* otherwise; a cache hit calls nothing.
C23_TakesContainer ==
    [][/\ last'.op = "register_factory" =>
            LET rs == services'[App][last'.arg[1]]
            IN rs.takes_container = (rs.factory \in ContainerFactories)
       /\ last'.op \in {"get", "aget"} =>
            LET c == last'.c
                t == last'.arg[1]
                rs == Effective(c, t)
            IN /\ services' = services
               /\ IF instantiated[c][t] # NOTHING \/ last'.err # ""
                  THEN trace' = <<>>
                  ELSE /\ Len(trace') = 1
                       /\ trace'[1].ev = "call"
                       /\ trace'[1].name = rs.name
                       /\ trace'[1].id = instantiated'[c][t].id
                       /\ trace'[1].args
                             = IF rs.takes_container THEN <<c>> ELSE <<>>
      ]_vars

\* C23, witness: container c2 has resolved A, whose factory has its
\* parameter annotated as Container, and the factory was called with c2;
\* B's factory without parameters is registered as not taking the container.
C23_Witness ==
    /\ last.op = "get"
    /\ last.c = "c2"
    /\ last.arg = <<"A">>
    /\ services[App]["A"].factory = "container_annotation_factory"
    /\ services[App]["A"].takes_container
    /\ services[App]["B"].factory = "int_factory"
    /\ ~services[App]["B"].takes_container
    /\ Len(trace) = 1
    /\ trace[1].args = <<"c2">>

\* The hooks of a hook list that are synchronous / asynchronous, as
\* (name, hook), in the order of the list.
SyncHooks(hooks) ==
    HookList(SelectSeq(hooks, LAMBDA h : ~iscoroutinefunction(h.oc)))
AsyncHooks(hooks) ==
    HookList(SelectSeq(hooks, LAMBDA h : iscoroutinefunction(h.oc)))

\* The events of the release stack all come before those of the hooks.
StackBeforeHooks(evs) ==
    \A i, j \in 1..Len(evs) : (evs[i].oc = "" /\ evs[j].oc # "") => i < j

\* C24: a container has no local registry until its first register_local_*
\* call; that call creates it and every later one adds to the same registry.
\* Closing the container closes the local registry in the same mode, after
\* the release stack was processed: close() invokes its synchronous hooks
\* (and skips the asynchronous ones with a warning), aclose() invokes the
\* synchronous ones and awaits the asynchronous ones; either empties it.
C24_LocalRegistryClosedWithContainer ==
    [][/\ \A c \in Containers :
            /\ ~lazy_local_registry'[c] =>
                  services'[c] = NoServices /\ reg_on_close'[c] = <<>>
            /\ lazy_local_registry'[c] # lazy_local_registry[c] =>
                  /\ lazy_local_registry'[c]
                  /\ last'.op = "register_local_factory"
                  /\ last'.c = c
       /\ last'.op = "register_local_factory" =>
            LET c == last'.c
                t == last'.arg[1]
            IN /\ lazy_local_registry'[c]
               /\ services'[c][t] # NotRegistered
               /\ \A u \in Types \ {t} : services'[c][u] = services[c][u]
               /\ IsPrefix(reg_on_close[c], reg_on_close'[c])
               /\ services'[App] = services[App]
       /\ last'.op \in {"close", "aclose"} =>
            LET c == last'.c
                hooks == reg_on_close[c]
            IN /\ StackBeforeHooks(trace')
               /\ Len(EntryEvents(trace', {"exit", "aexit", "warn"}))
                     = Len(on_close[c])
               /\ IsReverse(HookEvents(trace', {"call"}), SyncHooks(hooks))
               /\ IF last'.op = "close"
                  THEN /\ HookEvents(trace', {"await"}) = <<>>
                       /\ IsReverse(HookEvents(trace', {"warn"}),
                                    AsyncHooks(hooks))
                  ELSE /\ HookEvents(trace', {"warn"}) = <<>>
                       /\ IsReverse(HookEvents(trace', {"await"}),
                                    AsyncHooks(hooks))
                       /\ IsReverse(HookEvents(trace', {"call", "await"}),
                                    HookList(hooks))
               /\ services'[c] = NoServices
               /\ reg_on_close'[c] = <<>>
      ]_vars

\* C24, witness: two local registrations went to the one local registry, A
\* with a synchronous hook and B with an asynchronous one; aclose() has
\* exited the resource on the stack and then awaited B's hook and invoked
\* A's.
C24_Witness ==
    /\ last.op = "aclose"
    /\ last.c = "c1"
    /\ lazy_local_registry["c1"]
    /\ Len(trace) = 3
    /\ EntryEvents(<<trace[1]>>, {"exit", "aexit"}) = <<<<"A", 1>>>>
    /\ HookEvents(trace, {"call", "await"})
          = <<<<"B", "aclose">>, <<"A", "close">>>>
    /\ HookEvents(trace, {"await"}) = <<<<"B", "aclose">>>>

\* The position of the first occurrence of t in the request.
FirstAt(arg, t) == CHOOSE i \in 1..Len(arg) :
                      arg[i] = t /\ \A j \in 1..(i - 1) : arg[j] # t

\* C25: a get/aget that returns, called with one type, returns that one
\* instance; called with n >= 2 types it returns a list of length n whose
\* i-th element is the instance for the i-th type. The types are resolved in
\* request order: the factories of the types not yet cached are called once
\* each, in the order of their first occurrence in the request. A call that
\* finds every type cached calls nothing and returns the cached instances.
C25_PositionalResults ==
    [][(last'.op \in {"get", "aget"} /\ last'.err = "") =>
         LET c == last'.c
             arg == last'.arg
             n == Len(arg)
             missing == {arg[i] : i \in {k \in 1..n :
                                           instantiated[c][arg[k]] = NOTHING}}
         IN /\ n = 1 =>
                 /\ last'.ret.single
                 /\ last'.ret.value = instantiated'[c][arg[1]]
            /\ n >= 2 =>
                 /\ ~last'.ret.single
                 /\ Len(last'.ret.value) = n
                 /\ \A i \in 1..n :
                       last'.ret.value[i] = instantiated'[c][arg[i]]
            /\ Len(trace') = Cardinality(missing)
            /\ \A i \in 1..Len(trace') :
                  /\ trace'[i].ev = "call"
                  /\ trace'[i].name \in missing
                  /\ trace'[i].id = instantiated'[c][trace'[i].name].id
                  /\ \A j \in (i + 1)..Len(trace') :
                        FirstAt(arg, trace'[i].name)
                           < FirstAt(arg, trace'[j].name)
            /\ \A t \in Types :
                  instantiated[c][t] # NOTHING =>
                     instantiated'[c][t] = instantiated[c][t]
            /\ missing = {} => factory_calls' = factory_calls
      ]_vars

\* C25, witness: get(C, A, B) was repeated; it has called no factory and
\* returned the three cached instances in the order of the request.
C25_Witness ==
    /\ last.op = "get"
    /\ last.arg = <<"C", "A", "B">>
    /\ last.err = ""
    /\ trace = <<>>
    /\ ~last.ret.single
    /\ last.ret.value = <<instantiated["c1"]["C"], instantiated["c1"]["A"],
                          instantiated["c1"]["B"]>>
    /\ instantiated["c1"]["A"].id = 1
    /\ ncalls = 3

\* C26: a cache hit is the presence of the type in the cache, whatever the
\* cached value. A get/aget of a type that has a cache entry, None included,
\* calls no factory and returns the cached value; a get/aget that misses the
\* cache for a factory producing None calls the factory once and caches
\* None. The entry stays until the container is closed.
C26_NoneIsCached ==
    [][/\ last'.op \in {"get", "aget"} =>
            LET c == last'.c
                t == last'.arg[1]
                rs == Effective(c, t)
            IN /\ instantiated[c][t] # NOTHING =>
                    /\ last'.err = ""
                    /\ last'.ret.single
                    /\ last'.ret.value = instantiated[c][t]
                    /\ instantiated' = instantiated
                    /\ factory_calls' = factory_calls
                    /\ trace' = <<>>
               /\ (/\ instantiated[c][t] = NOTHING
                   /\ rs.factory \in NoneFactories
                   /\ last'.err = "") =>
                    /\ instantiated'[c][t] = NoneObject
                    /\ last'.ret.value = NoneObject
                    /\ factory_calls'[t] = factory_calls[t] + 1
       /\ \A c \in Containers, t \in Types :
             (instantiated[c][t] # NOTHING /\ instantiated'[c][t] = NOTHING)
                => last'.op \in {"close", "aclose"} /\ last'.c = c
      ]_vars

\* C26, witness: A's generator factory yields None; it was invoked once and
\* a second get has returned None from the cache without invoking it.
C26_Witness ==
    /\ last.op = "get"
    /\ last.arg = <<"A">>
    /\ last.err = ""
    /\ services[App]["A"].factory = "none_gen_factory"
    /\ instantiated["c1"]["A"] = NoneObject
    /\ last.ret.value = NoneObject
    /\ factory_calls["A"] = 1
    /\ trace = <<>>

\* C27: closing is idempotent. A close() or aclose() of a container directly
\* after a close() or aclose() of it runs no cleanup and no hook, raises
\* nothing, and leaves the container, its local registry included, as empty
\* as the first one left it.
C27_CloseIdempotent ==
    [][(/\ last.op \in {"close", "aclose"}
        /\ last'.op \in {"close", "aclose"}
        /\ last'.c = last.c) =>
          /\ trace' = <<>>
          /\ last'.err = ""
          /\ instantiated' = instantiated
          /\ on_close' = on_close
          /\ services' = services
          /\ reg_on_close' = reg_on_close
          /\ instantiated'[last'.c] = NoInstances
          /\ on_close'[last'.c] = <<>>
          /\ reg_on_close'[last'.c] = <<>>
      ]_vars

\* C27, witness: the container, which has no local registry, had resolved A
\* from a generator factory, so that the first close ran A's cleanup; the
\* close after it has found nothing to run.
C27_Witness ==
    /\ last.op \in {"close", "aclose"}
    /\ trace = <<>>
    /\ ~lazy_local_registry["c1"]
    /\ services[App]["A"].factory = "str_gen_factory"
    /\ factory_calls["A"] = 1
    /\ instantiated["c1"] = NoInstances
    /\ on_close["c1"] = <<>>

\* The operations of svcs.flask that reach the container through
\* svcs_from().
FlaskAccess == {"svcs_from", "get", "overwrite_factory"}

\* C28: in svcs.flask, an access through svcs_from() when g holds no
\* container constructs one, never used before and empty, and stores it on
\* g; every later access gets that same container, and none is constructed.
\* The container resolves the registrations of the app's registry.
\* teardown() takes the container off g and closes it: every cleanup on its
\* release stack runs once, and the container is left empty and is never
\* touched again; the next access constructs another one.
C28_FlaskContainerPerContext ==
    [][/\ last'.op \in FlaskAccess =>
            /\ flask_g' # None
            /\ last'.c = flask_g'
            /\ IF flask_g # None
               THEN /\ flask_g' = flask_g
                    /\ containers_created' = containers_created
               ELSE /\ containers_created' = containers_created + 1
                    /\ flask_g' = ContainerOrder[containers_created']
                    /\ \A i \in 1..containers_created :
                          ContainerOrder[i] # flask_g'
                    /\ instantiated[flask_g'] = NoInstances
                    /\ on_close[flask_g'] = <<>>
                    /\ ~lazy_local_registry[flask_g']
       /\ (last'.op = "get" /\ last'.err = "") =>
            LET t == last'.arg[1] IN
            (instantiated[last'.c][t] = NOTHING
                /\ services[last'.c][t] = NotRegistered) =>
               instantiated'[last'.c][t].f = services[App][t].factory
       /\ last'.op = "teardown" =>
            /\ flask_g' = None
            /\ containers_created' = containers_created
            /\ IF flask_g = None THEN trace' = <<>>
               ELSE /\ Len(trace') = Len(on_close[flask_g])
                    /\ IsReverse(EntryEvents(trace', {"exit"}),
                                 Entries(on_close[flask_g]))
                    /\ instantiated'[flask_g] = NoInstances
                    /\ on_close'[flask_g] = <<>>
       /\ \A c \in Containers :
             (c # flask_g /\ c # flask_g') =>
                /\ instantiated'[c] = instantiated[c]
                /\ on_close'[c] = on_close[c]
      ]_vars

\* C28, witness: the first container resolved A and was torn down, running
\* A's cleanup; the next access in the context has constructed a second
\* container, which has resolved A anew.
C28_Witness ==
    /\ last.op = "get"
    /\ flask_g = "c2"
    /\ containers_created = 2
    /\ services[App]["A"].factory = "str_gen_factory"
    /\ instantiated["c2"]["A"].id = 2
    /\ Entries(on_close["c2"]) = <<<<"A", 2>>>>
    /\ instantiated["c1"] = NoInstances
    /\ on_close["c1"] = <<>>

\* C29: svcs.flask.overwrite_factory / overwrite_value registers the type
\* anew on the app's registry, leaving the other registrations, and closes
\* the container on g, which stays on g: its cleanups run, and its cache and
\* release stack are empty afterwards. The get of that type that follows
\* directly invokes the newly registered factory and returns its instance,
\* whatever the container had registered locally.
C29_OverwriteResets ==
    [][/\ \A t \in FlaskTypes, f \in FlaskFactories \cup {"lambda_value"} :
             Flask_overwrite_factory(t, f, TRUE, None, None) =>
                /\ services'[App][t].factory = f
                /\ \A u \in Types \ {t} :
                      services'[App][u] = services[App][u]
       /\ last'.op = "overwrite_factory" =>
            LET con == last'.c IN
            /\ flask_g' = con
            /\ flask_g # None => con = flask_g
            /\ IsReverse(EntryEvents(trace', {"exit"}), Entries(on_close[con]))
            /\ instantiated'[con] = NoInstances
            /\ on_close'[con] = <<>>
       /\ (/\ last.op = "overwrite_factory"
           /\ last'.op = "get"
           /\ last'.arg = last.arg) =>
            LET con == last'.c
                t == last'.arg[1]
            IN /\ con = last.c
               /\ last'.err = ""
               /\ Len(trace') = 1
               /\ trace'[1].ev = "call"
               /\ factory_calls'[t] = factory_calls[t] + 1
               /\ instantiated'[con][t].f = services[App][t].factory
               /\ last'.ret.value = instantiated'[con][t]
      ]_vars

\* C29, witness: only A was ever registered; the one container of the
\* context has resolved A a second time, from the value that overwrote A's
\* registration.
C29_Witness ==
    /\ last.op = "get"
    /\ last.arg = <<"A">>
    /\ flask_g = "c1"
    /\ containers_created = 1
    /\ services[App]["B"] = NotRegistered
    /\ services[App]["A"].factory = "lambda_value"
    /\ instantiated["c1"]["A"].f = "lambda_value"
    /\ factory_calls["A"] = 2

\* C30: in the async adapters every request that gets a container (all but
\* a Starlette scope that is neither http nor websocket) gets one
\* constructed for it, shared with no other request, that resolves the
\* registrations of the app's registry. When the handler returns or raises,
\* the container is closed asynchronously: every entry of its release stack
\* is exited once, the container is left empty, and an error the handler
\* raised goes on to the framework. Once the request is done nothing
\* touches its container again.
C30_RequestContainerClosed ==
    [][/\ \A r, q \in Requests :
             (r # q /\ requests'[r].container # None) =>
                requests'[r].container # requests'[q].container
       /\ last'.op = "middleware" =>
            LET r == last'.arg[1] IN
            /\ (requests'[r].container # None) = has_container(requests'[r].scope)
            /\ requests'[r].container # None =>
                  /\ instantiated[requests'[r].container] = NoInstances
                  /\ on_close[requests'[r].container] = <<>>
                  /\ \A i \in 1..containers_created :
                        ContainerOrder[i] # requests'[r].container
       /\ (last'.op = "aget" /\ last'.err = "") =>
            LET t == last'.arg[1] IN
            instantiated[last'.c][t] = NOTHING =>
               instantiated'[last'.c][t].f = services[App][t].factory
       /\ last'.op = "__aexit__" =>
            LET r == last'.arg[1]
                exc == last'.arg[2]
                con == requests[r].container
            IN /\ last'.c = con
               /\ requests[r].state = "handling"
               /\ requests'[r].state = "done"
               /\ Len(trace') = Len(on_close[con])
               /\ \A i \in 1..Len(on_close[con]) :
                     Count(EntryEvents(trace', {"exit", "aexit"}),
                           <<on_close[con][i].name, on_close[con][i].cm.id>>)
                        = 1
               /\ on_close'[con] = <<>>
               /\ instantiated'[con] = NoInstances
               /\ last'.err = IF exc = None THEN "" ELSE exc
               /\ \A c \in Containers \ {con} :
                     /\ on_close'[c] = on_close[c]
                     /\ instantiated'[c] = instantiated[c]
       /\ \A r \in Requests :
             requests[r].state = "done" =>
                /\ requests'[r] = requests[r]
                /\ requests[r].container # None =>
                      /\ on_close'[requests[r].container] = <<>>
                      /\ instantiated'[requests[r].container] = NoInstances
      ]_vars

\* C30, witness: two requests were served, each with its own container; the
\* handler of the second raised after resolving a service from an async
\* generator factory, the container was closed with that cleanup awaited,
\* and the error has gone on.
C30_Witness ==
    /\ last.op = "__aexit__"
    /\ last.err = "ValueError"
    /\ requests["r1"].state = "done"
    /\ requests["r2"].state = "done"
    /\ requests["r1"].container # None
    /\ requests["r2"].container # None
    /\ requests["r1"].container # requests["r2"].container
    /\ Len(EntryEvents(trace, {"aexit"})) = 1
    /\ Len(trace) = 1

\* C31: the lifespan wrapper works on one registry throughout. When the
\* user's lifespan function has yielded, the state the wrapper yields holds
\* that registry under the key "svcs_registry", once, next to every other
\* item the user's function yielded (none if it yielded None), and the
\* registry has not been touched. When the application shuts down, the
\* registry is closed asynchronously whether or not the user's function
\* raised on the way out: every shutdown hook is called or awaited, newest
\* first, the registry is left empty, and the user's error goes on.
C31_LifespanClosesRegistry ==
    [][/\ (last'.op = "lifespan_startup" /\ last'.err = "") =>
            LET user == last'.arg[1] IN
            /\ lifespan'.phase = "running"
            /\ {item \in lifespan'.state : item[1] = KEY_REGISTRY}
                  = {<<KEY_REGISTRY, App>>}
            /\ {item \in lifespan'.state : item[1] # KEY_REGISTRY}
                  = {item \in user.items : item[1] # KEY_REGISTRY}
            /\ services' = services
            /\ reg_on_close' = reg_on_close
       /\ lifespan.phase = "running" =>
            /\ <<KEY_REGISTRY, App>> \in lifespan.state
            /\ lifespan'.phase = "running" => lifespan'.state = lifespan.state
            /\ lifespan'.phase # "running" => last'.op = "lifespan_shutdown"
       /\ last'.op = "lifespan_shutdown" =>
            /\ lifespan.phase = "running"
            /\ lifespan'.phase = "closed"
            /\ IsReverse(HookEvents(trace', {"call", "await"}),
                         HookList(reg_on_close[App]))
            /\ services'[App] = NoServices
            /\ reg_on_close'[App] = <<>>
            /\ last'.err = IF last'.arg[1] = None THEN "" ELSE last'.arg[1]
      ]_vars

\* C31, witness: the user's lifespan function yielded a dict of its own and
\* raised while shutting down; the registry's two shutdown hooks, one of
\* them asynchronous, have run all the same, and the error has gone on.
C31_Witness ==
    /\ last.op = "lifespan_shutdown"
    /\ last.err = "ValueError"
    /\ <<"db", "pool">> \in lifespan.state
    /\ Len(HookEvents(trace, {"call"})) = 1
    /\ Len(HookEvents(trace, {"await"})) = 1
    /\ services[App] = NoServices

\* C32: in the Pyramid adapter a request gets no container until its view
\* asks for one; the first access makes one, used by no other request, and
\* every later access during the request returns that same container, so a
\* request has at most one. When the request is finished, the container
\* that was made is closed synchronously: every entry of its release stack
\* is exited exactly once (the synchronous get acquires synchronous
\* resources only), the container is left empty, and it stays so. A request
\* that made no container closes nothing.
C32_PyramidContainerClosed ==
    [][/\ \A r \in Requests :
            LET req == pyramid_requests[r]
                con == req.container
            IN
            /\ con # None => pyramid_requests'[r].container = con
            /\ req.phase = "handling" =>
                  /\ Len(req.finished_callbacks) = IF con = None THEN 0 ELSE 1
                  /\ con # None => req.finished_callbacks = <<con>>
            /\ \A q \in Requests \ {r} :
                  con # None => pyramid_requests[q].container # con
            /\ req.phase = "finished" =>
                  /\ pyramid_requests'[r] = req
                  /\ con # None =>
                        /\ on_close'[con] = <<>>
                        /\ instantiated'[con] = NoInstances
       /\ last'.op = "svcs_from" =>
            LET r == last'.arg[1] IN
            /\ last'.c = pyramid_requests'[r].container
            /\ last'.c # None
            /\ pyramid_requests[r].container = None =>
                  /\ instantiated[last'.c] = NoInstances
                  /\ on_close[last'.c] = <<>>
       /\ last'.op = "get" =>
            \E r \in Requests :
               /\ pyramid_requests[r].phase = "handling"
               /\ last'.c = pyramid_requests'[r].container
               /\ \A i \in 1..Len(on_close'[last'.c]) :
                     isinstance_AbstractContextManager(on_close'[last'.c][i].cm)
       /\ last'.op = "request_finished" =>
            LET r == last'.arg[1]
                con == pyramid_requests[r].container
            IN
            /\ pyramid_requests'[r].phase = "finished"
            /\ con = None =>
                  /\ trace' = <<>>
                  /\ on_close' = on_close
                  /\ instantiated' = instantiated
            /\ con # None =>
                  /\ IsReverse(EntryEvents(trace', {"exit"}),
                               Entries(on_close[con]))
                  /\ EntryEvents(trace', {"warn", "aexit"}) = <<>>
                  /\ on_close'[con] = <<>>
                  /\ instantiated'[con] = NoInstances
                  /\ \A c \in Containers \ {con} :
                        /\ on_close'[c] = on_close[c]
                        /\ instantiated'[c] = instantiated[c]
      ]_vars

\* C32, witness: both requests are finished; the view of the second resolved
\* two services from generator factories through one container, which the
\* finished callback has closed, running both cleanups, newest first.
C32_Witness ==
    /\ last.op = "request_finished"
    /\ last.arg = <<"r2">>
    /\ pyramid_requests["r1"].phase = "finished"
    /\ pyramid_requests["r1"].container # None
    /\ pyramid_requests["r2"].container # None
    /\ pyramid_requests["r1"].container # pyramid_requests["r2"].container
    /\ EntryEvents(trace, {"exit"}) = <<<<"B", 1>>, <<"A", 1>>>>
    /\ on_close[pyramid_requests["r2"].container] = <<>>

\* The entries of a release stack that are tagged with the name t.
EntriesOf(stack, t) == SelectSeq(stack, LAMBDA e : e.name = t)

\* C33, as the claim states it: with coroutines suspended inside aget, and no
\* close anywhere, the factory of a type is invoked at most once, the
\* release stack holds at most one cleanup for the type, and an aget that
\* returns while an instance is cached returns that instance.
C33_Original ==
    [][\A t \in Types :
         /\ factory_calls'[t] <= 1
         /\ Len(EntriesOf(on_close'["c1"], t)) <= 1
         /\ (/\ last'.op = "aget" /\ last'.err = "" /\ last'.arg = <<t>>
             /\ instantiated["c1"][t] # NOTHING)
               => last'.rv[1] = instantiated["c1"][t]
      ]_vars

\* C33, what holds instead: aget looks the type up in the cache before its
\* awaits and writes the cache after them. A coroutine that is suspended in
\* aget(T) has invoked the factory and has not cached anything, so every
\* aget(T) that starts before the first one has gone on misses the cache and
\* invokes the factory again. Each coroutine, once it goes on, caches and
\* returns the instance its own factory invocation produced, replacing what
\* another coroutine cached; and each invocation that produced a resource
\* has its own entry on the release stack.
C33_CacheWrittenAfterAwait ==
    [][\A k \in Tasks :
         /\ (tasks[k] = Idle /\ tasks'[k] # Idle) =>
               LET aw == tasks'[k].await
                   c == tasks'[k].c
               IN /\ instantiated[c][aw.t] = NOTHING
                  /\ instantiated'[c][aw.t] = NOTHING
                  /\ factory_calls'[aw.t] = factory_calls[aw.t] + 1
                  /\ aw.svc.id = factory_calls'[aw.t]
                  /\ aw.at = "__aenter__" =>
                        Len(EntriesOf(on_close'[c], aw.t))
                           = Len(EntriesOf(on_close[c], aw.t)) + 1
         /\ (tasks[k] # Idle /\ tasks'[k] = Idle) =>
               LET aw == tasks[k].await
                   c == tasks[k].c
               IN /\ last'.op = "aget"
                  /\ last'.err = ""
                  /\ last'.rv[1] = instantiated'[c][aw.t]
                  /\ last'.rv[1].id = aw.svc.id
                  /\ factory_calls' = factory_calls
      ]_vars

\* C33, witness: two coroutines called aget(A) for an async generator
\* factory, the second while the first was suspended entering the resource.
\* Both have returned: the factory was invoked twice, the release stack
\* holds two cleanups for A, and the cache holds the first coroutine's
\* instance, which the second coroutine did not get.
C33_Witness ==
    /\ services[App]["A"].factory = "async_str_gen_factory"
    /\ factory_calls["A"] = 2
    /\ Len(EntriesOf(on_close["c1"], "A")) = 2
    /\ \A k \in Tasks : tasks[k] = Idle
    /\ last.op = "aget"
    /\ last.rv[1].id = 1
    /\ instantiated["c1"]["A"].id = 1

\* Where the release stack holds the entry tagged t (0: nowhere), and where
\* the events of a close have the exit of the entry tagged t (0: nowhere).
StackIndex(stack, t) ==
    IF \E i \in 1..Len(stack) : stack[i].name = t
    THEN CHOOSE i \in 1..Len(stack) : stack[i].name = t ELSE 0
ExitIndex(evs, t) ==
    IF \E i \in 1..Len(evs) :
          evs[i].name = t /\ evs[i].oc = "" /\ evs[i].ev \in {"exit", "aexit"}
    THEN CHOOSE i \in 1..Len(evs) :
            evs[i].name = t /\ evs[i].oc = "" /\ evs[i].ev \in {"exit", "aexit"}
    ELSE 0

\* The release stack holds A, made by a factory that acquires B from the
\* container, and B.
Dependent(stack) ==
    /\ StackIndex(stack, "A") # 0
    /\ StackIndex(stack, "B") # 0
    /\ stack[StackIndex(stack, "A")].cm.f \in DepFactories

\* C34, as the claim states it: when a close exits both A, whose factory
\* acquired B from the container, and B, the exit of A comes first.
C34_Original ==
    [][(/\ last'.op \in Closing
        /\ Dependent(on_close[last'.c])
        /\ ExitIndex(trace', "A") # 0
        /\ ExitIndex(trace', "B") # 0)
          => ExitIndex(trace', "A") < ExitIndex(trace', "B")
      ]_vars

\* C34, what holds instead: cleanups run in the reverse of the order in
\* which the entries were appended to the release stack, and get/aget
\* append a context manager before they enter it. A factory that is a
\* function or a coroutine function has acquired B by the time its own
\* resource is appended, so A is exited before B. A generator or async
\* generator factory acquires B while its context manager is being entered,
\* after that was appended: unless B was cached before, B is appended
\* after A, and a close exits B before it exits A.
C34_ReleaseInAppendOrder ==
    [][/\ (/\ last'.op \in Closing
            /\ Dependent(on_close[last'.c])
            /\ ExitIndex(trace', "A") # 0
            /\ ExitIndex(trace', "B") # 0)
             => (ExitIndex(trace', "A") < ExitIndex(trace', "B"))
                  = (StackIndex(on_close[last'.c], "A")
                       > StackIndex(on_close[last'.c], "B"))
       /\ (/\ last'.op \in {"get", "aget"}
            /\ last'.err = ""
            /\ ~Dependent(on_close[last'.c])
            /\ Dependent(on_close'[last'.c]))
             => LET stack == on_close'[last'.c]
                    f == stack[StackIndex(stack, "A")].cm.f
                    B_was_there == StackIndex(on_close[last'.c], "B") # 0
                IN (StackIndex(stack, "A") > StackIndex(stack, "B"))
                     = (body_runs(f) \in {"call", "await"} \/ B_was_there)
      ]_vars

\* C34, witness: A comes from a generator factory that acquired B, a
\* resource of its own, from the container while it was entered; the close
\* has exited B first and A after it.
C34_Witness ==
    /\ last.op = "close"
    /\ services[App]["A"].factory = "dep_gen_factory"
    /\ services[App]["B"].factory = "str_gen_factory"
    /\ EntryEvents(trace, {"exit"}) = <<<<"B", 1>>, <<"A", 1>>>>
    /\ factory_calls = [t \in Types |-> IF t = "C" THEN 0 ELSE 1]

\* The entries of a release stack whose context manager was never entered.
NeverEntered(stack) == SelectSeq(stack, LAMBDA e : e.cm.entered = "")

\* C36, as the claim states it: when entering the resource raises, get/aget
\* leave the cache and the release stack as they were, so the release
\* stack never holds a resource that was not entered.
C36_Original ==
    [][/\ (last'.op \in {"get", "aget"} /\ last'.err = "ValueError") =>
            /\ instantiated'[last'.c] = instantiated[last'.c]
            /\ on_close'[last'.c] = on_close[last'.c]
       /\ \A c \in Containers : NeverEntered(on_close'[c]) = <<>>
      ]_vars

\* C36, what holds instead: when entering the resource raises, the error
\* propagates and nothing is cached, but the resource is on the release
\* stack already, appended before the attempt to enter it; it stays there,
\* and the next close exits it like an entered one (close() skips it with
\* a warning if it is asynchronous).
C36_FailedEnterStaysOnStack ==
    [][/\ (last'.op \in {"get", "aget"} /\ last'.err = "ValueError") =>
            LET c == last'.c
                t == last'.arg[1]
            IN /\ last'.errarg \in EnterBoomFactories
               /\ instantiated'[c] = instantiated[c]
               /\ instantiated'[c][t] = NOTHING
               /\ Len(on_close'[c]) = Len(on_close[c]) + 1
               /\ IsPrefix(on_close[c], on_close'[c])
               /\ on_close'[c][Len(on_close'[c])].name = t
               /\ on_close'[c][Len(on_close'[c])].cm.entered = ""
               /\ on_close'[c][Len(on_close'[c])].cm.id = factory_calls'[t]
       /\ (last'.op \in {"get", "aget"} /\ last'.err # "ValueError") =>
            NeverEntered(on_close'[last'.c]) = NeverEntered(on_close[last'.c])
       /\ last'.op \in Closing =>
            /\ on_close'[last'.c] = <<>>
            /\ IsReverse(EntryEvents(trace', {"exit", "aexit", "warn"}),
                         Entries(on_close[last'.c]))
      ]_vars

\* C36, witness: get(A) raised because the generator factory of A raised
\* while its context manager was entered; A is not cached, and the release
\* stack holds A's context manager, never entered, above the resource B
\* that was acquired before.
C36_Witness ==
    /\ last.op = "get"
    /\ last.arg = <<"A">>
    /\ last.err = "ValueError"
    /\ instantiated["c1"]["A"] = NOTHING
    /\ instantiated["c1"]["B"] # NOTHING
    /\ Len(on_close["c1"]) = 2
    /\ on_close["c1"][1].cm.entered = "__enter__"
    /\ on_close["c1"][2].name = "A"
    /\ on_close["c1"][2].cm.entered = ""

\* What a step exits or skips: (name, id) of the entries that the events of
\* the step concern, and of those the coroutine that ends its aclose with
\* the step visited before.
Attempted ==
    {EntryEvents(trace', {"exit", "aexit", "warn"})[i] :
        i \in 1..Len(EntryEvents(trace', {"exit", "aexit", "warn"}))}
    \cup UNION {{tasks[k].visited[i] : i \in 1..Len(tasks[k].visited)} :
                  k \in {j \in Tasks : /\ tasks[j].pc = "aclose"
                                       /\ tasks'[j] = Idle}}

\* The entries a step takes off the release stack of c.
Dropped(c) ==
    {Entries(on_close[c])[i] : i \in 1..Len(on_close[c])}
    \ {Entries(on_close'[c])[i] : i \in 1..Len(on_close'[c])}

\* C35, as the claim states it: an entry leaves the release stack only in a
\* step of a close that has exited it or skipped it with a warning, also
\* when services are acquired while an aclose is suspended.
C35_Original ==
    [][\A c \in Containers : Dropped(c) \subseteq Attempted]_vars

\* C35, what holds instead: entries leave the release stack only when a
\* close, having finished its loop, clears the stack, and the clear takes
\* whatever the stack holds then. The loop of an aclose that was suspended
\* at index i goes on below i: an entry appended by an aget in the meantime
\* lies above and is not visited, so the clear drops it, and its cached
\* instance with it, without any exit. What an aclose that is not suspended
\* drops, it has exited.
C35_ClearDropsUnvisited ==
    [][/\ \A c \in Containers :
             Dropped(c) # {} =>
                /\ last'.op = "aclose"
                /\ on_close'[c] = <<>>
                /\ instantiated'[c] = NoInstances
       /\ \A k \in Tasks :
             (tasks[k].pc = "aclose" /\ tasks'[k] = Idle) =>
                LET c == tasks[k].c IN
                /\ on_close'[c] = <<>>
                /\ \A j \in 1..Len(on_close[c]) :
                      j >= tasks[k].index =>
                         Count(EntryEvents(trace', {"exit", "aexit", "warn"}),
                               Entries(on_close[c])[j]) = 0
                /\ tasks[k].index - 1 <= Len(on_close[c]) =>
                      \A j \in 1..(tasks[k].index - 1) :
                         Entries(on_close[c])[j] \in Attempted
       /\ (last'.op = "aclose" /\ \A k \in Tasks : tasks'[k] = tasks[k]) =>
             Dropped(last'.c) \subseteq Attempted
       /\ (last'.op = "aget" /\ last'.err = "") =>
             IsPrefix(on_close[last'.c], on_close'[last'.c])
      ]_vars

\* C35, witness: a coroutine is suspended in aclose, awaiting the exit of
\* the one entry the release stack held; meanwhile an aget has acquired
\* B, whose entry lies above the index the loop will go on from.
C35_Witness ==
    /\ tasks["t1"].pc = "aclose"
    /\ tasks["t1"].index = 1
    /\ tasks["t1"].visited = <<<<"A", 1>>>>
    /\ last.op = "aget"
    /\ last.arg = <<"B">>
    /\ Entries(on_close["c1"]) = <<<<"A", 1>>, <<"B", 1>>>>
    /\ instantiated["c1"]["B"] # NOTHING

\* C37: a get/aget for several types that raises at one of them (the
\* type is not registered, or get meets an async factory) keeps what it
\* did for the types before it: each of them is cached with the instance
\* resolved for it, the release stack is the old one extended by the
\* resources newly entered for them, and the type it failed at is not
\* cached. A later get/aget for a type that is cached returns the cached
\* instance and invokes no factory, and the next close exits every entry of
\* the release stack exactly once.
C37_PartialGetKeepsEarlier ==
    [][/\ (last'.op \in {"get", "aget"} /\ last'.err # "") =>
            LET c == last'.c
                arg == last'.arg
                n == Len(last'.rv)
            IN /\ n < Len(arg)
               /\ \A i \in 1..n : instantiated'[c][arg[i]] = last'.rv[i]
               /\ instantiated[c][arg[n + 1]] = NOTHING
               /\ instantiated'[c][arg[n + 1]] = NOTHING
               /\ \A t \in Types :
                     (\A i \in 1..n : arg[i] # t) =>
                        instantiated'[c][t] = instantiated[c][t]
               /\ IsPrefix(on_close[c], on_close'[c])
               /\ \A t \in Types :
                     Len(EntriesOf(on_close'[c], t))
                        = IF /\ \E i \in 1..n : arg[i] = t
                             /\ instantiated[c][t] = NOTHING
                             /\ ResultKind(services[App][t].factory) = "cm"
                          THEN Len(EntriesOf(on_close[c], t)) + 1
                          ELSE Len(EntriesOf(on_close[c], t))
       /\ (last'.op \in {"get", "aget"} /\ last'.err = "") =>
            \A i \in 1..Len(last'.arg) :
               instantiated[last'.c][last'.arg[i]] # NOTHING =>
                  /\ last'.rv[i] = instantiated[last'.c][last'.arg[i]]
                  /\ factory_calls'[last'.arg[i]] = factory_calls[last'.arg[i]]
       /\ last'.op = "close" =>
            /\ IsReverse(EntryEvents(trace', {"exit"}),
                         Entries(on_close[last'.c]))
            /\ \A i \in 1..Len(on_close[last'.c]) :
                  Count(EntryEvents(trace', {"exit"}),
                        Entries(on_close[last'.c])[i]) = 1
            /\ on_close'[last'.c] = <<>>
      ]_vars

\* C37, witness: get(A, B) raised ServiceNotFoundError for B after it had
\* resolved A from a generator factory: A is cached and its cleanup is on
\* the release stack.
C37_Witness ==
    /\ last.op = "get"
    /\ last.arg = <<"A", "B">>
    /\ last.err = "ServiceNotFoundError"
    /\ last.errarg = "B"
    /\ Len(last.rv) = 1
    /\ instantiated["c1"]["A"] = last.rv[1]
    /\ factory_calls["A"] = 1
    /\ Entries(on_close["c1"]) = <<<<"A", 1>>>>

\* C38: closing a container that has a local registry leaves that registry
\* without registrations and without hooks, and the shared registry as it
\* was; the local registry stays empty until something is registered
\* locally again. A get/aget on the container for an uncached type that the
\* local registry does not hold is answered by the shared registry: with
\* the shared factory's service if the type is registered there, with
\* ServiceNotFoundError for the type if it is not.
C38_LocalRegistrationsEndWithClose ==
    [][/\ last'.op \in Closing =>
            /\ services'[last'.c] = NoServices
            /\ reg_on_close'[last'.c] = <<>>
            /\ services'[App] = services[App]
            /\ reg_on_close'[App] = reg_on_close[App]
       /\ \A c \in Containers :
             (services[c] = NoServices /\ last'.op # "register_local_factory")
                => services'[c] = NoServices
       /\ \A t \in Types :
             (/\ IsCall(last', last'.c, t)
              /\ instantiated[last'.c][t] = NOTHING
              /\ services[last'.c][t] = NotRegistered) =>
                IF services[App][t] = NotRegistered
                THEN /\ last'.err = "ServiceNotFoundError"
                     /\ last'.errarg = t
                     /\ factory_calls' = factory_calls
                ELSE /\ last'.err # "ServiceNotFoundError"
                     /\ factory_calls'[t] = factory_calls[t] + 1
                     /\ last'.err = "" =>
                           /\ last'.rv[1].f = services[App][t].factory
                           /\ instantiated'[last'.c][t] = last'.rv[1]
      ]_vars

\* C38, witness: a type registered only locally was resolved, the container
\* was closed, and a get for the type on the same container has raised
\* ServiceNotFoundError; another type, registered locally and in the shared
\* registry, is there to be resolved from the shared one.
C38_Witness ==
    /\ last.op = "get"
    /\ last.arg = <<"A">>
    /\ last.err = "ServiceNotFoundError"
    /\ factory_calls["A"] = 1
    /\ lazy_local_registry["c1"]
    /\ services["c1"] = NoServices
    /\ services[App]["A"] = NotRegistered
    /\ services[App]["B"] # NotRegistered

\* The cleanups of a release stack: the (name, instance) pairs an exit, a
\* warning or a logged failure in a close's trace can be about.
CleanupsOf(stack) ==
    {<<stack[i].name, stack[i].cm.id>> : i \in 1..Len(stack)}
CleanupsRun(evs) ==
    {<<evs[i].name, evs[i].id>> :
        i \in {k \in 1..Len(evs) :
                 evs[k].ev \in {"exit", "aexit", "warn", "log"}}}

\* C39: an operation on one container (get, aget, close, aclose,
\* register_local_factory, register_local_value) leaves the shared
\* registry's registrations and shutdown hooks as they were, and leaves the
\* instance cache, the release stack and the local registry of every other
\* container as they were; a close runs none of the cleanups that are on
\* another container's release stack.
C39_ContainersIndependent ==
    [][\A c \in Containers : last'.c = c =>
          /\ services'[App] = services[App]
          /\ reg_on_close'[App] = reg_on_close[App]
          /\ \A d \in Containers \ {c} :
                /\ instantiated'[d] = instantiated[d]
                /\ on_close'[d] = on_close[d]
                /\ services'[d] = services[d]
                /\ reg_on_close'[d] = reg_on_close[d]
                /\ lazy_local_registry'[d] = lazy_local_registry[d]
                /\ last'.op \in Closing =>
                      CleanupsRun(trace') \cap CleanupsOf(on_close[d]) = {}
      ]_vars

\* C39, witness: both containers have acquired the shared registry's
\* context-manager service, c1 has been closed and has run its cleanup, and
\* c2 still has its instance cached and its cleanup on its release stack.
C39_Witness ==
    /\ last.op \in {"close", "aclose"}
    /\ last.c = "c1"
    /\ CleanupsRun(trace) # {}
    /\ services[App]["A"] # NotRegistered
    /\ instantiated["c1"]["A"] = NOTHING
    /\ instantiated["c2"]["A"] # NOTHING
    /\ on_close["c2"] # <<>>

====
